---- MODULE Spec2Model ----
(***************************************************************************)
(* A model of the card layout and rendering pipeline of CollectibleCards:  *)
(*   source/generators/faction_templatecard_generator.py  (the latest      *)
(*   generator, 750x1024 canvas)  and  faction_templatecard_generator.py   *)
(*   (the older generator, 750x1050 canvas).                               *)
(*                                                                         *)
(* A text is a sequence of words and a word is its number of characters.   *)
(* A font is a record [size, italic].  The measurements of the imaging     *)
(* library (textlength, textbbox) are functions of the character count and *)
(* of the font.                                                            *)
(*                                                                         *)
(* The module holds one specification per component:                       *)
(*   SpecWrap   the greedy word wrap, one word of the for loop per step    *)
(*   SpecFit    the shrink loop of draw_rules_flavor_centered              *)
(*   SpecCover  cover_fit                                                  *)
(*   SpecCard   build_card, one drawing call per step                      *)
(*   SpecBatch  main of the card generators                                 *)
(*   SpecDraw   the functions build_card calls on the fields of a row       *)
(*   SpecPips   pip_grid_positions and draw_pips of playingcard_generator   *)
(*   SpecFonts  load_font of the card and the playing-card generator       *)
(*   SpecIds    main of card_id_generator                                   *)
(***************************************************************************)
EXTENDS Integers, Sequences, FiniteSets, TLC

VARIABLES
    \* ---- word wrap (wrap_left / draw_center_wrapped_text) ----
    wrapKind,      \* "left" (wrap_left) or "center" (draw_center_wrapped_text)
    words,         \* txt.split()
    font,          \* the font the text is measured in
    max_w,         \* the width budget
    wi,            \* index of the next word of the for loop
    cur,           \* the line being built ("" is the empty sequence)
    lines,         \* the lines appended so far
    wrapPc,        \* "idle" | "loop" | "done"
    \* ---- shrink loop (draw_rules_flavor_centered) ----
    ability,       \* the ability text: a sequence of paragraphs
    flavor,        \* the flavor text: a sequence of words
    rules_rect,    \* the rules box <<x0, y0, x1, y1>>
    ability_size,
    flavor_size,
    decrements,    \* number of decrements the loop has made
    total_h,       \* the height measured by the last iteration
    drawn,         \* what the drawing part has drawn
    fitPc,         \* "idle" | "loop" | "draw" | "done"
    \* ---- cover_fit ----
    image_size,    \* image.size of the source: <<iw, ih>>
    crop_box,      \* the box given to image.crop: <<left, upper, right, lower>>
    fitted_size,   \* the size of the image cover_fit returns
    coverPc,       \* "idle" | "call" | "done"
    \* ---- build_card ----
    variant,       \* "latest" (750x1024 generator) or "older" (750x1050)
    row,           \* the CSV row and the files and parameters that go with it
    regions,       \* the six rectangles compute_regions returned
    art_img,       \* what locate_art returned
    log,           \* the drawing operations made on the canvas, in order
    canvas,        \* the image `outer`: its size and mode
    result,        \* the image build_card returned
    cardPc,        \* the statement of build_card that runs next
    \* ---- main (the batch) ----
    csv_ok,        \* whether pd.read_csv can open and parse the input table
    table,         \* the rows of the input table
    rows_arg,      \* the rows parameter: [given, list]
    FACTION_DATA,  \* the style table (latest generator), orb images included
    SURV_TOTAL,    \* os.environ["SURV_TOTAL"]
    selected_rows, \* the row indices to render, in order
    set_names,     \* the set folders still to be removed
    dirs,          \* the output subdirectories that exist
    out_files,     \* the files under the output directory
    removed,       \* the subdirectories shutil.rmtree has removed
    bi,            \* index of the next element of selected_rows
    rendered,      \* the row indices whose card was written, in order
    batchPc,       \* the statement of main that runs next
    \* ---- the functions build_card calls on the fields of a row ----
    call,          \* the function called
    faction_text,  \* faction_key_from_text: the text, a sequence of words
    faction_key,   \* faction_key_from_text: the key returned
    cost_in,       \* place_orb_number_left_centered: the arguments
    cost_draw,     \* place_orb_number_left_centered: what was drawn, and where
    stats_in,      \* the stats row: the cells of the row
    stats_shown,   \* the stats row: the numerals drawn
    footer_in,     \* draw_footer: the arguments
    footer_draw,   \* draw_footer: the texts drawn and their positions
    drawPc,        \* "idle" | "call" | "done"
    \* ---- playingcard_generator.py: pip_grid_positions, draw_pips ----
    pip_caller,    \* "direct" (pip_grid_positions alone) or "draw_pips"
    rank,          \* the rank: "A", "2" .. "10", "J", "Q", "K", "JOKER"
    positions,     \* what pip_grid_positions returned
    pip_pastes,    \* the boxes draw_pips has pasted a glyph into, in order
    pipPc,         \* "idle" | "call" | "loop" | "done"
    \* ---- load_font (card generator and playingcard_generator.py) ----
    font_gen,      \* "card" (latest card generator) or "playing"
    font_files,    \* the font files that exist and open
    VERBOSE,       \* the global VERBOSE: "undefined", TRUE or FALSE
    font_reqs,     \* the load_font calls still to make, in order
    fonts_loaded,  \* the fonts load_font has returned, in order
    fontPc,        \* "idle" | "call" | "done" | "raised"
    \* ---- card_id_generator.py: main ----
    csv_files,     \* the rows of each input CSV, in the order of --csv
    output_given,  \* whether --output names one output path per input
    csv_i,         \* index of the next input of `for i, csv_path in ...`
    output_path,   \* the local output_path: <<"in" or "out", i>>
    id_rows,       \* the local rows
    type_subtype_counter,
    card_ids,      \* the local card_ids
    id_ri,         \* index of the next row of `for row in rows`
    written,       \* the files written: a set of [path, rows]
    idPc           \* "idle" | "read" | "assign" | "write" | "done"

wrapVars == <<wrapKind, words, font, max_w, wi, cur, lines, wrapPc>>
fitVars  == <<ability, flavor, rules_rect, ability_size, flavor_size,
              decrements, total_h, drawn, fitPc>>
coverVars == <<image_size, crop_box, fitted_size, coverPc>>
cardVars == <<variant, row, regions, art_img, log, canvas, result, cardPc>>
batchVars == <<csv_ok, table, rows_arg, FACTION_DATA, SURV_TOTAL, selected_rows,
               set_names, dirs, out_files, removed, bi, rendered, batchPc>>
drawVars == <<call, faction_text, faction_key, cost_in, cost_draw, stats_in,
              stats_shown, footer_in, footer_draw, drawPc>>
pipVars == <<pip_caller, rank, positions, pip_pastes, pipPc>>
fontVars == <<font_gen, font_files, VERBOSE, font_reqs, fonts_loaded, fontPc>>
idVars == <<csv_files, output_given, csv_i, output_path, id_rows,
            type_subtype_counter, card_ids, id_ri, written, idPc>>
toolVars == <<pipVars, fontVars, idVars>>
vars == <<wrapVars, fitVars, coverVars, cardVars, batchVars, drawVars,
          toolVars>>

----------------------------------------------------------------------------
(* Helpers over sequences of naturals.                                     *)

RECURSIVE SumSeq(_)
SumSeq(s) == IF s = <<>> THEN 0 ELSE Head(s) + SumSeq(Tail(s))

Max(a, b) == IF a >= b THEN a ELSE b

----------------------------------------------------------------------------
(* Text measurement.                                                       *)

\* Number of characters of " ".join(line): the words and one space between
\* two neighbours.
Chars(line) == IF line = <<>> THEN 0 ELSE SumSeq(line) + Len(line) - 1

\* draw.textlength(text, font=font): the advance of the text, proportional
\* to the font size; the italic face is a little narrower than the bold one.
TextLength(line, f) ==
    (Chars(line) * f.size * (IF f.italic THEN 11 ELSE 12)) \div 20

\* bbox = d.textbbox((0,0), "Hg", font); bbox[3] - bbox[1]
HgHeight(f) == (f.size * 19) \div 20

\* load_font(size, italic)
load_font(size, italic) == [size |-> size, italic |-> italic]

----------------------------------------------------------------------------
(* Greedy word wrap.                                                       *)

\* WrapLeftRun measuring the line before the word is added to it.
RECURSIVE WrapLeftRunStale(_, _, _, _, _, _, _)
WrapLeftRunStale(ws, i, n, c, ls, f, mw) ==
    IF i > n THEN [cur |-> c, lines |-> ls]
    ELSE IF TextLength(c, f) <= mw
         THEN WrapLeftRunStale(ws, i + 1, n, Append(c, ws[i]), ls, f, mw)
         ELSE WrapLeftRunStale(ws, i + 1, n, <<ws[i]>>,
                               IF c # <<>> THEN Append(ls, c) ELSE ls, f, mw)

\* The for loop of wrap_left over the words ws[i..n], entered with the line
\* c being built and the lines ls appended so far; gives cur and lines after
\* the last of these words:
\*     for w in words:
\*         test = (cur + " " + w).strip()
\*         if d.textlength(test, font=font) <= max_w: cur = test
\*         else:
\*             if cur: lines.append(cur)
\*             cur = w
RECURSIVE WrapLeftRun(_, _, _, _, _, _, _)
WrapLeftRun(ws, i, n, c, ls, f, mw) ==
    IF i > n THEN [cur |-> c, lines |-> ls]
    ELSE LET test == Append(c, ws[i]) IN
         IF TextLength(test, f) <= mw
         THEN WrapLeftRun(ws, i + 1, n, test, ls, f, mw)
         ELSE WrapLeftRun(ws, i + 1, n, <<ws[i]>>,
                          IF c # <<>> THEN Append(ls, c) ELSE ls, f, mw)

\* The for loop of draw_center_wrapped_text: the same, but its else branch
\* appends cur without testing it:
\*         else:
\*             lines.append(cur); cur = w
RECURSIVE WrapCenterRun(_, _, _, _, _, _, _)
WrapCenterRun(ws, i, n, c, ls, f, mw) ==
    IF i > n THEN [cur |-> c, lines |-> ls]
    ELSE LET test == Append(c, ws[i]) IN
         IF TextLength(test, f) <= mw
         THEN WrapCenterRun(ws, i + 1, n, test, ls, f, mw)
         ELSE WrapCenterRun(ws, i + 1, n, <<ws[i]>>, Append(ls, c), f, mw)

\* if cur: lines.append(cur)
WrapFlush(st) == IF st.cur # <<>> THEN Append(st.lines, st.cur) ELSE st.lines

\* wrap_left(txt, font, max_w)
wrap_left(ws, f, mw) ==
    WrapFlush(WrapLeftRun(ws, 1, Len(ws), <<>>, <<>>, f, mw))

\* the lines of draw_center_wrapped_text(draw, text, box, font, ...)
wrap_center(ws, f, mw) ==
    WrapFlush(WrapCenterRun(ws, 1, Len(ws), <<>>, <<>>, f, mw))

----------------------------------------------------------------------------
(* draw_rules_flavor_centered: measuring and the shrink loop.  The function *)
(* is the same in both generators.                                          *)

start_ability == 25      \* ability_size, flavor_size = 25, 24
start_flavor == 24
min_ability == 18        \* min_ability, min_flavor = 18, 18
min_flavor == 18
ability_line_gap == 4    \* ability_line_gap, para_gap, divider_gap = 4, 8, 12
para_gap == 8
divider_gap == 12
flavor_line_gap == 4     \* y += (bbox[3] - bbox[1]) + 4
pad_top == 18            \* pad_top, pad_bottom = 18, 20
pad_bottom == 20
text_inset == 40         \* max_w = rules_rect[2]-rules_rect[0]-40

\* get_fonts(a_size, f_size)
get_fonts(a_sz, f_sz) == <<load_font(a_sz, FALSE), load_font(f_sz, TRUE)>>

\* The height the paragraphs of the ability text add, in measure():
\*     for para in ability.split("\n"):
\*         para = para.strip()
\*         if not para: continue
\*         for _ in wrap_left(para, fa, max_w): y += Hg(fa) + ability_line_gap
\*         y += para_gap
RECURSIVE AbilityHeight(_, _, _)
AbilityHeight(paras, fa, mw) ==
    IF paras = <<>> THEN 0
    ELSE (IF Head(paras) = <<>> THEN 0
          ELSE Len(wrap_left(Head(paras), fa, mw)) * (HgHeight(fa) + ability_line_gap)
               + para_gap)
         + AbilityHeight(Tail(paras), fa, mw)

\* measure(a_sz, f_sz)
measure(ab, fl, rect, a_sz, f_sz) ==
    LET fa == get_fonts(a_sz, f_sz)[1]
        ff == get_fonts(a_sz, f_sz)[2]
        mw == rect[3] - rect[1] - text_inset
    IN pad_top
       + AbilityHeight(ab, fa, mw)
       + divider_gap
       + (IF fl # <<>>
          THEN Len(wrap_left(fl, ff, mw)) * (HgHeight(ff) + flavor_line_gap)
          ELSE 0)
       + pad_bottom

\* available = rules_rect[3]-rules_rect[1]
Available(rect) == rect[4] - rect[2]

\* LoopExit with the height comparison turned round.
LoopExitFlipped(th, avail, a_sz, f_sz) ==
    th >= avail \/ (a_sz <= min_ability /\ f_sz <= min_flavor)

\* if total_h <= available or (ability_size <= min_ability and
\*                             flavor_size <= min_flavor): break
LoopExit(th, avail, a_sz, f_sz) ==
    th <= avail \/ (a_sz <= min_ability /\ f_sz <= min_flavor)

\* ShrinkStep that lowers the flavor size before the ability size.
ShrinkStepFlavorFirst(a_sz, f_sz) ==
    IF f_sz > min_flavor THEN [a |-> a_sz, f |-> f_sz - 1, brk |-> FALSE]
    ELSE IF a_sz > min_ability THEN [a |-> a_sz - 1, f |-> f_sz, brk |-> FALSE]
    ELSE [a |-> a_sz, f |-> f_sz, brk |-> TRUE]

\* ShrinkStep whose first test is >= instead of >.
ShrinkStepOffByOne(a_sz, f_sz) ==
    IF a_sz >= min_ability THEN [a |-> a_sz - 1, f |-> f_sz, brk |-> FALSE]
    ELSE IF f_sz > min_flavor THEN [a |-> a_sz, f |-> f_sz - 1, brk |-> FALSE]
    ELSE [a |-> a_sz, f |-> f_sz, brk |-> TRUE]

\* if ability_size > min_ability: ability_size -= 1
\* elif flavor_size > min_flavor: flavor_size -= 1
\* else: break
ShrinkStep(a_sz, f_sz) ==
    IF a_sz > min_ability THEN [a |-> a_sz - 1, f |-> f_sz, brk |-> FALSE]
    ELSE IF f_sz > min_flavor THEN [a |-> a_sz, f |-> f_sz - 1, brk |-> FALSE]
    ELSE [a |-> a_sz, f |-> f_sz, brk |-> TRUE]

\* The sizes the while loop ends with, from sizes (a_sz, f_sz).
RECURSIVE FitFrom(_, _, _, _, _)
FitFrom(ab, fl, rect, a_sz, f_sz) ==
    IF LoopExit(measure(ab, fl, rect, a_sz, f_sz), Available(rect), a_sz, f_sz)
    THEN [a |-> a_sz, f |-> f_sz]
    ELSE LET st == ShrinkStep(a_sz, f_sz) IN
         IF st.brk THEN [a |-> a_sz, f |-> f_sz]
         ELSE FitFrom(ab, fl, rect, st.a, st.f)

\* The sizes draw_rules_flavor_centered draws with.
FitSizes(ab, fl, rect) == FitFrom(ab, fl, rect, start_ability, start_flavor)

\* The drawing part: the lines of every non-empty paragraph at the ability
\* size, the divider line, the flavor lines at the flavor size.
RECURSIVE AbilityLines(_, _, _)
AbilityLines(paras, fa, mw) ==
    IF paras = <<>> THEN <<>>
    ELSE (IF Head(paras) = <<>> THEN <<>> ELSE wrap_left(Head(paras), fa, mw))
         \o AbilityLines(Tail(paras), fa, mw)

DrawBlock(ab, fl, rect, a_sz, f_sz) ==
    LET fa == get_fonts(a_sz, f_sz)[1]
        ff == get_fonts(a_sz, f_sz)[2]
        mw == rect[3] - rect[1] - text_inset
        y_div == rect[2] + pad_top + AbilityHeight(ab, fa, mw) + divider_gap
        fl_lines == IF fl # <<>> THEN wrap_left(fl, ff, mw) ELSE <<>>
    IN [ability_size  |-> a_sz,
        flavor_size   |-> f_sz,
        ability_lines |-> AbilityLines(ab, fa, mw),
        divider_y     |-> y_div,
        flavor_lines  |-> fl_lines,
        end_y         |-> y_div + divider_gap
                           + Len(fl_lines) * (HgHeight(ff) + flavor_line_gap)]

----------------------------------------------------------------------------
(* cover_fit: crop to the target aspect ratio, then resize.  The function   *)
(* is the same in both generators.  target_ratio = target_w / target_h and  *)
(* src_ratio = iw / ih are floats in the code; int(ih * target_ratio) and   *)
(* int(iw / target_ratio) equal the exact floors for every size below 3000. *)

ART_W == 645             \* ART_W, ART_H = 645, 339
ART_H == 339

\* CoverBox that crops from the left or top edge instead of the centre.
CoverBoxUncentred(iw, ih, tw, th) ==
    IF iw * th > tw * ih
    THEN <<0, 0, (ih * tw) \div th, ih>>
    ELSE <<0, 0, iw, (iw * th) \div tw>>

\* The box cover_fit gives to image.crop:
\*     if src_ratio > target_ratio:
\*         new_w = int(ih * target_ratio)
\*         x0 = max(0, (iw - new_w)//2)
\*         image.crop((x0, 0, x0+new_w, ih))
\*     else:
\*         new_h = int(iw / target_ratio)
\*         y0 = max(0, (ih - new_h)//2)
\*         image.crop((0, y0, iw, y0+new_h))
CoverBox(iw, ih, tw, th) ==
    IF iw * th > tw * ih
    THEN LET new_w == (ih * tw) \div th
             x0 == Max(0, (iw - new_w) \div 2)
         IN <<x0, 0, x0 + new_w, ih>>
    ELSE LET new_h == (iw * th) \div tw
             y0 == Max(0, (ih - new_h) \div 2)
         IN <<0, y0, iw, y0 + new_h>>

\* return image.resize((target_w, target_h), LANCZOS): the size of the result.
CoverSize(tw, th) == <<tw, th>>

----------------------------------------------------------------------------
(* SpecWrap: the word wrap, one word per step.                             *)

MaxWrapWords == 4                  \* longest text wrapped word by word
WordLens == {3, 20, 50}            \* characters per word
WrapTexts == UNION {[1..n -> WordLens] : n \in 0..MaxWrapWords}
WrapFonts == {load_font(18, FALSE), load_font(25, FALSE), load_font(24, TRUE)}
WrapWidths == {0, 200, 646}        \* 646 = rules box width 686 - 40

WrapIdle ==
    /\ wrapKind = "none" /\ words = <<>> /\ font = load_font(24, FALSE)
    /\ max_w = 0 /\ wi = 1 /\ cur = <<>> /\ lines = <<>> /\ wrapPc = "idle"

FitIdle ==
    /\ ability = <<>> /\ flavor = <<>> /\ rules_rect = <<0, 0, 0, 0>>
    /\ ability_size = 25 /\ flavor_size = 24 /\ decrements = 0 /\ total_h = 0
    /\ drawn = <<>> /\ fitPc = "idle"

CoverIdle ==
    /\ image_size = <<0, 0>> /\ crop_box = <<0, 0, 0, 0>>
    /\ fitted_size = <<0, 0>> /\ coverPc = "idle"

\* The values of the build_card variables before any call is made.
None == [found |-> FALSE, size |-> <<0, 0>>]
NoRect == <<0, 0, 0, 0>>
NoRegions == [name |-> NoRect, art |-> NoRect, type |-> NoRect,
              rules |-> NoRect, stats |-> NoRect, foot |-> NoRect]
NoCanvas == [size |-> <<0, 0>>, mode |-> "none"]
NoRow == [art |-> <<>>, cost |-> 0, special_no_cost |-> FALSE,
          ability |-> <<>>, flavor |-> <<>>]

CardIdle ==
    /\ variant = "none" /\ row = NoRow /\ regions = NoRegions
    /\ art_img = None /\ log = <<>> /\ canvas = NoCanvas
    /\ result = NoCanvas /\ cardPc = "idle"

\* The values of the variables of main before main is called.
BatchIdle ==
    /\ csv_ok = FALSE /\ table = <<>> /\ rows_arg = [given |-> FALSE, list |-> <<>>]
    /\ FACTION_DATA = <<>> /\ SURV_TOTAL = 0 /\ selected_rows = <<>>
    /\ set_names = {} /\ dirs = {} /\ out_files = {} /\ removed = {}
    /\ bi = 1 /\ rendered = <<>> /\ batchPc = "idle"

\* The values of the variables of the row functions before any is called.
NoValue == [none |-> TRUE]
DrawIdle ==
    /\ call = "none" /\ faction_text = <<>> /\ faction_key = "none"
    /\ cost_in = NoValue /\ cost_draw = NoValue /\ stats_in = NoValue
    /\ stats_shown = NoValue /\ footer_in = NoValue /\ footer_draw = NoValue
    /\ drawPc = "idle"

PipIdle ==
    /\ pip_caller = "none" /\ rank = "none" /\ positions = <<>>
    /\ pip_pastes = <<>> /\ pipPc = "idle"
FontIdle ==
    /\ font_gen = "none" /\ font_files = {} /\ VERBOSE = "undefined"
    /\ font_reqs = <<>> /\ fonts_loaded = <<>> /\ fontPc = "idle"
IdIdle ==
    /\ csv_files = <<>> /\ output_given = FALSE /\ csv_i = 1
    /\ output_path = <<>> /\ id_rows = <<>> /\ type_subtype_counter = <<>>
    /\ card_ids = <<>> /\ id_ri = 1 /\ written = {} /\ idPc = "idle"
ToolsIdle == PipIdle /\ FontIdle /\ IdIdle

InitWrap ==
    /\ wrapKind \in {"left", "center"}
    /\ words \in WrapTexts
    /\ font \in WrapFonts
    /\ max_w \in WrapWidths
    /\ wi = 1 /\ cur = <<>> /\ lines = <<>> /\ wrapPc = "loop"
    /\ FitIdle /\ CoverIdle /\ CardIdle /\ BatchIdle /\ DrawIdle /\ ToolsIdle

\* for w in words: ... (wrap_left)
WrapLeftStep ==
    /\ wrapPc = "loop" /\ wrapKind = "left" /\ wi <= Len(words)
    /\ LET st == WrapLeftRun(words, wi, wi, cur, lines, font, max_w)
       IN cur' = st.cur /\ lines' = st.lines
    /\ wi' = wi + 1
    /\ UNCHANGED <<wrapKind, words, font, max_w, wrapPc, fitVars, coverVars, cardVars,
                   batchVars, drawVars, toolVars>>

\* for w in words: ... (draw_center_wrapped_text)
WrapCenterStep ==
    /\ wrapPc = "loop" /\ wrapKind = "center" /\ wi <= Len(words)
    /\ LET st == WrapCenterRun(words, wi, wi, cur, lines, font, max_w)
       IN cur' = st.cur /\ lines' = st.lines
    /\ wi' = wi + 1
    /\ UNCHANGED <<wrapKind, words, font, max_w, wrapPc, fitVars, coverVars, cardVars,
                   batchVars, drawVars, toolVars>>

\* if cur: lines.append(cur), after the loop of either wrap
WrapEnd ==
    /\ wrapPc = "loop" /\ wi > Len(words)
    /\ lines' = WrapFlush([cur |-> cur, lines |-> lines])
    /\ wrapPc' = "done"
    /\ UNCHANGED <<wrapKind, words, font, max_w, wi, cur, fitVars, coverVars, cardVars,
                   batchVars, drawVars, toolVars>>

NextWrap == WrapLeftStep \/ WrapCenterStep \/ WrapEnd

SpecWrap == InitWrap /\ [][NextWrap]_vars

\* The step machine and the wrap operators compute the same lines.
WrapStepsAgree ==
    wrapPc = "done" =>
        lines = IF wrapKind = "left" THEN wrap_left(words, font, max_w)
                ELSE wrap_center(words, font, max_w)

----------------------------------------------------------------------------
(* SpecFit: the shrink loop of draw_rules_flavor_centered, one iteration   *)
(* of `while True` per step, then the drawing part.                        *)

MaxParas == 2            \* paragraphs of an ability text
MaxParaWords == 12       \* words of the longest paragraph
MaxFlavorWords == 12     \* words of the longest flavor text
MaxHeightSteps == 11     \* rules-box heights 0, 60, ..., 60 * MaxHeightSteps
HeightStep == 60

Para(n, l) == [i \in 1..n |-> l]

\* An empty paragraph (a blank line), one short word, a long paragraph, and
\* a paragraph of words that are each wider than the box.
FitParas == {<<>>, Para(1, 5), Para(MaxParaWords, 14), Para(3, 60)}
AbilityTexts == UNION {[1..n -> FitParas] : n \in 0..MaxParas}
FlavorTexts == {<<>>, Para(5, 9), Para(MaxFlavorWords, 9)}

\* The rules boxes: the one compute_regions gives in the latest generator
\* (height 380), the one of the older generator (height 326), and boxes of
\* the same width and other heights.
FitRects ==
    {<<32, 524, 718, 904>>, <<32, 569, 718, 895>>}
    \cup {<<32, 524, 718, 524 + HeightStep * k>> : k \in 0..MaxHeightSteps}

InitFit ==
    /\ ability \in AbilityTexts
    /\ flavor \in FlavorTexts
    /\ rules_rect \in FitRects
    /\ ability_size = start_ability /\ flavor_size = start_flavor
    /\ decrements = 0 /\ total_h = 0 /\ drawn = <<>> /\ fitPc = "loop"
    /\ WrapIdle /\ CoverIdle /\ CardIdle /\ BatchIdle /\ DrawIdle /\ ToolsIdle

\* One iteration of `while True`.
LoopIter ==
    /\ fitPc = "loop"
    /\ LET th == measure(ability, flavor, rules_rect, ability_size, flavor_size)
           st == ShrinkStep(ability_size, flavor_size)
       IN /\ total_h' = th
          /\ IF LoopExit(th, Available(rules_rect), ability_size, flavor_size) \/ st.brk
             THEN /\ fitPc' = "draw"
                  /\ UNCHANGED <<ability_size, flavor_size, decrements>>
             ELSE /\ ability_size' = st.a
                  /\ flavor_size' = st.f
                  /\ decrements' = decrements + 1
                  /\ fitPc' = "loop"
    /\ UNCHANGED <<ability, flavor, rules_rect, drawn, wrapVars, coverVars, cardVars,
                   batchVars, drawVars, toolVars>>

\* The drawing part after the loop.
DrawRulesFlavor ==
    /\ fitPc = "draw"
    /\ drawn' = DrawBlock(ability, flavor, rules_rect, ability_size, flavor_size)
    /\ fitPc' = "done"
    /\ UNCHANGED <<ability, flavor, rules_rect, ability_size, flavor_size,
                   decrements, total_h, wrapVars, coverVars, cardVars,
                   batchVars, drawVars, toolVars>>

NextFit == LoopIter \/ DrawRulesFlavor

SpecFit == InitFit /\ [][NextFit]_vars

\* The function runs to its end: it is never suspended.
FairSpecFit == SpecFit /\ WF_vars(NextFit)

\* The step machine and FitSizes compute the same sizes.
FitStepsAgree ==
    fitPc \in {"draw", "done"} =>
        FitSizes(ability, flavor, rules_rect) = [a |-> ability_size, f |-> flavor_size]

\* C1: in the shrink loop every iteration lowers exactly one of the two sizes
\* by exactly 1, and the flavor size is lowered only when the ability size
\* already equals its minimum: flavor_size < 24 implies ability_size = 18.
C1_AbilityShrinksFirst ==
    /\ [](fitPc # "idle" =>
            (flavor_size < start_flavor => ability_size = min_ability))
    /\ [][(fitPc = "loop" /\ fitPc' = "loop") =>
            \/ ability_size' = ability_size - 1 /\ flavor_size' = flavor_size
            \/ ability_size' = ability_size /\ flavor_size' = flavor_size - 1]_vars

\* The loop is about to lower the flavor size a second time.
C1_Witness ==
    /\ fitPc = "loop"
    /\ flavor_size < start_flavor /\ flavor_size > min_flavor
    /\ ability_size = min_ability
    /\ total_h > Available(rules_rect)

\* C2, the part that holds in every state: at most 13 decrements, the sizes
\* stay in 18..25 and 18..24, the loop is left only when the measured height
\* fits or both sizes are 18, and the block is drawn with the sizes the loop
\* ended with (so at (18, 18) when it still overflows).
C2_LoopBounds ==
    /\ decrements <= (start_ability - min_ability) + (start_flavor - min_flavor)
    /\ min_ability <= ability_size /\ ability_size <= start_ability
    /\ min_flavor <= flavor_size /\ flavor_size <= start_flavor
    /\ fitPc \in {"draw", "done"} =>
          \/ total_h <= Available(rules_rect)
          \/ ability_size = min_ability /\ flavor_size = min_flavor
    /\ fitPc = "done" =>
          /\ drawn.ability_size = ability_size
          /\ drawn.flavor_size = flavor_size

\* C2: for every ability text, flavor text and rules-box height the shrink
\* loop terminates after at most 13 decrements with sizes in range, exits only
\* when the height fits or both sizes are 18, and then draws the block.
C2_ShrinkLoopTerminates ==
    /\ [](fitPc # "idle" => C2_LoopBounds)
    /\ <>(fitPc = "done")

\* The text overflows even at (18, 18): 13 decrements were made and the
\* block was drawn at the minimum sizes.
C2_Witness ==
    /\ fitPc = "done"
    /\ total_h > Available(rules_rect)
    /\ decrements = 13
    /\ drawn.ability_size = 18 /\ drawn.flavor_size = 18
    /\ drawn.ability_lines # <<>> /\ drawn.flavor_lines # <<>>

\* C3: for fixed texts and box width the chosen sizes are monotonic in the
\* available height: a box at least as high gets sizes at least as large.
C3_FitMonotonic ==
    fitPc \in {"draw", "done"} =>
        \A r2 \in FitRects :
            (r2[1] = rules_rect[1] /\ r2[3] = rules_rect[3]
             /\ Available(rules_rect) <= Available(r2)) =>
                LET big == FitSizes(ability, flavor, r2) IN
                /\ ability_size <= big.a
                /\ flavor_size <= big.f

\* A finished fit that had to shrink both sizes, with a higher box for which
\* both chosen sizes are strictly larger.
C3_Witness ==
    /\ fitPc = "done"
    /\ flavor_size < start_flavor
    /\ \E r2 \in FitRects :
          /\ r2[1] = rules_rect[1] /\ r2[3] = rules_rect[3]
          /\ Available(rules_rect) < Available(r2)
          /\ FitSizes(ability, flavor, r2).a > ability_size
          /\ FitSizes(ability, flavor, r2).f > flavor_size

----------------------------------------------------------------------------
(* SpecCover: cover_fit(image, ART_W, ART_H) for source images of every    *)
(* size in SrcSizes x SrcSizes.                                            *)

MaxSrc == 12             \* every source width and height in 1..MaxSrc
SrcSizes == (1..MaxSrc) \cup {339, 645, 646, 1024, 1290}

InitCover ==
    /\ image_size \in SrcSizes \X SrcSizes
    /\ crop_box = <<0, 0, 0, 0>> /\ fitted_size = <<0, 0>> /\ coverPc = "call"
    /\ WrapIdle /\ FitIdle /\ CardIdle /\ BatchIdle /\ DrawIdle /\ ToolsIdle

\* cover_fit(image, ART_W, ART_H)
CoverFit ==
    /\ coverPc = "call"
    /\ crop_box' = CoverBox(image_size[1], image_size[2], ART_W, ART_H)
    /\ fitted_size' = CoverSize(ART_W, ART_H)
    /\ coverPc' = "done"
    /\ UNCHANGED <<image_size, wrapVars, fitVars, cardVars,
                   batchVars, drawVars, toolVars>>

NextCover == CoverFit

SpecCover == InitCover /\ [][NextCover]_vars

\* C5: for every source image of width >= 1 and height >= 1 and the target
\* 645x339, the crop box lies inside the source, is at least 1 pixel wide and
\* 1 pixel high, and the returned image is exactly target_w x target_h.
C5_CropBoxInsideNonEmpty ==
    coverPc = "done" =>
        /\ 0 <= crop_box[1] /\ crop_box[3] <= image_size[1]
        /\ 0 <= crop_box[2] /\ crop_box[4] <= image_size[2]
        /\ crop_box[3] - crop_box[1] >= 1
        /\ crop_box[4] - crop_box[2] >= 1
        /\ fitted_size = <<ART_W, ART_H>>

\* The pixels cover_fit removes on each side of the source.
CropLeft == crop_box[1]
CropRight == image_size[1] - crop_box[3]
CropTop == crop_box[2]
CropBottom == image_size[2] - crop_box[4]

\* C6: cover_fit crops along one axis only, the axis that is too long for the
\* target aspect ratio, and keeps the other axis whole; the pixels removed
\* from the two opposite sides of the cropped axis differ by at most 1.
C6_CropOneAxisCentred ==
    coverPc = "done" =>
        /\ IF image_size[1] * ART_H > ART_W * image_size[2]
           THEN CropTop = 0 /\ CropBottom = 0
           ELSE CropLeft = 0 /\ CropRight = 0
        /\ CropLeft - CropRight \in {-1, 0, 1}
        /\ CropTop - CropBottom \in {-1, 0, 1}
        /\ CropLeft >= 0 /\ CropRight >= 0 /\ CropTop >= 0 /\ CropBottom >= 0

\* A wide source cropped by an odd number of columns: one side loses one
\* pixel more than the other.
C6_Witness ==
    /\ coverPc = "done"
    /\ CropLeft > 0 /\ CropRight = CropLeft + 1
    /\ CropTop = 0 /\ CropBottom = 0

----------------------------------------------------------------------------
(* compute_regions of the two generators.                                  *)

PX_W == 750
PX_H_latest == 1024
PX_H_older == 1050
PX_H(v) == IF v = "latest" THEN PX_H_latest ELSE PX_H_older
ART_INSET == 32

\* compute_regions() of source/generators/faction_templatecard_generator.py
regions_latest ==
    LET name_rect == <<ART_INSET, 20, PX_W - ART_INSET, 100>>
        art_rect == <<ART_INSET + 10, name_rect[4] + 5,
                      PX_W - ART_INSET - 10, name_rect[4] + 365>>
        type_rect == <<ART_INSET, art_rect[4] + 6,
                       PX_W - ART_INSET, art_rect[4] + 54>>
        stats_rect == <<PX_W \div 2 - 180, PX_H_latest - 115,
                        PX_W \div 2 + 180, PX_H_latest - 75>>
        foot_rect == <<ART_INSET, PX_H_latest - 70,
                       PX_W - ART_INSET, PX_H_latest - 10>>
        rules_rect_ == <<ART_INSET, type_rect[4] + 5,
                         PX_W - ART_INSET, stats_rect[2] - 5>>
    IN [name |-> name_rect, art |-> art_rect, type |-> type_rect,
        rules |-> rules_rect_, stats |-> stats_rect, foot |-> foot_rect]

\* compute_regions() of faction_templatecard_generator.py
regions_older ==
    LET name_rect == <<ART_INSET, 50, PX_W - ART_INSET, 127>>
        art_rect == <<ART_INSET + 10, name_rect[4] + 10,
                      PX_W - ART_INSET - 10, name_rect[4] + 370>>
        type_rect == <<ART_INSET, art_rect[4] + 12,
                       PX_W - ART_INSET, art_rect[4] + 62>>
        stats_rect == <<PX_W \div 2 - 180, PX_H_older - 145,
                        PX_W \div 2 + 180, PX_H_older - 95>>
        foot_rect == <<ART_INSET, PX_H_older - 80,
                       PX_W - ART_INSET, PX_H_older - 10>>
        rules_rect_ == <<ART_INSET, type_rect[4] + 10,
                         PX_W - ART_INSET, stats_rect[2] - 10>>
    IN [name |-> name_rect, art |-> art_rect, type |-> type_rect,
        rules |-> rules_rect_, stats |-> stats_rect, foot |-> foot_rect]

\* Variant: the rules box closed up to no height.
compute_regions_flat(v) ==
    LET r == IF v = "latest" THEN regions_latest ELSE regions_older
    IN [r EXCEPT !.rules[4] = r.rules[2]]

\* Variant: the rules box ends one pixel higher above the stats box than it
\* starts below the type box.
compute_regions_uneven(v) ==
    LET r == IF v = "latest" THEN regions_latest ELSE regions_older
    IN [r EXCEPT !.rules[4] = @ - 1]

compute_regions(v) == IF v = "latest" THEN regions_latest ELSE regions_older

RegionNames == {"name", "art", "type", "rules", "stats", "foot"}

----------------------------------------------------------------------------
(* locate_art.  A file is absent, present but not decodable, or a          *)
(* decodable image of some size.  row.art gives the files at the four      *)
(* places an artwork can be, in the order of ArtPaths.  The older          *)
(* generator tries all four; the latest generator looks at the primary     *)
(* path only.                                                              *)

ArtPaths == <<"primary", "artwork_field", "card_id_glob", "slug_glob">>

isfile(f) == f.st # "absent"

\* Variant: the decode error leaves the function.
OpenArtUncaught(f) ==
    IF f.st = "ok"
    THEN [img |-> [found |-> TRUE, size |-> f.size], raised |-> FALSE]
    ELSE [img |-> None, raised |-> TRUE]

\* try: return Image.open(path).convert("RGBA")
\* except Exception as e: print(...)
OpenArt(f) ==
    IF f.st = "ok"
    THEN [img |-> [found |-> TRUE, size |-> f.size], raised |-> FALSE]
    ELSE [img |-> None, raised |-> FALSE]

\* for p in candidates: if os.path.isfile(p): try ... except ...: continue
RECURSIVE TryCandidates(_, _)
TryCandidates(files, i) ==
    IF i > Len(files) THEN [img |-> None, raised |-> FALSE]
    ELSE IF isfile(files[i])
         THEN LET o == OpenArt(files[i])
              IN IF o.raised \/ o.img.found THEN o
                 ELSE TryCandidates(files, i + 1)
         ELSE TryCandidates(files, i + 1)

locate_art(v, files) ==
    LET primary == IF isfile(files[1]) THEN OpenArt(files[1])
                   ELSE [img |-> None, raised |-> FALSE]
    IN IF primary.raised \/ primary.img.found THEN primary
       ELSE IF v = "latest" THEN [img |-> None, raised |-> FALSE]
       ELSE TryCandidates(files, 2)

----------------------------------------------------------------------------
(* The drawing operations each statement of build_card makes, in order.    *)

BackgroundOps == <<"background">>
FrameOps == <<"frame">>
PlaqueOps == <<"plaque_name", "plaque_type", "plaque_rules", "plaque_stats",
               "plaque_foot">>

\* Variant: the bevel is drawn before the artwork is pasted.
ArtOpsBevelFirst(img) ==
    <<"art_bevel">> \o (IF img.found THEN <<"art_paste">> ELSE <<>>)

\* if art_img is not None: paste_art(...);  draw_art_bevel(...)
ArtOps(img) ==
    (IF img.found THEN <<"art_paste">> ELSE <<>>) \o <<"art_bevel">>

\* The cost indicator.  Latest generator: place_orb_number_left_centered
\* returns before drawing when the cost holds no token.  Older generator:
\* the call is skipped when special_no_cost.
CostOps(v, r) ==
    IF v = "latest"
    THEN IF r.cost = 0 THEN <<>> ELSE <<"cost_indicator">>
    ELSE IF r.special_no_cost THEN <<>> ELSE <<"cost_indicator">>

NameCostOps(v, r) == <<"name_text">> \o CostOps(v, r)
TypeBadgeOps == <<"type_text", "faction_badge">>
StatsOps == <<"stats_line">>
\* draw_footer draws the footer plaque again, then the footer texts
FooterOps == <<"footer_plaque", "footer_text">>
RulesOps == <<"rules_flavor">>

----------------------------------------------------------------------------
(* SpecCard: one call of build_card, one statement per step, for both      *)
(* generators.  The call of draw_rules_flavor_centered runs the steps of   *)
(* SpecFit on the row's texts and the rules box of compute_regions.        *)

ArtSizes == {<<1, 2>>, <<1290, 339>>}
ArtFiles ==
    {[st |-> "absent", size |-> <<0, 0>>], [st |-> "corrupt", size |-> <<0, 0>>]}
    \cup {[st |-> "ok", size |-> sz] : sz \in ArtSizes}
CardAbilities == {<<>>, <<Para(MaxParaWords, 14), Para(3, 60)>>}
CardFlavors == {Para(5, 9)}
Rows(v) ==
    [art : [1..Len(ArtPaths) -> ArtFiles],
     cost : {0, 2},
     special_no_cost : IF v = "latest" THEN {FALSE} ELSE BOOLEAN,
     ability : CardAbilities,
     flavor : CardFlavors]

InitCard ==
    /\ variant \in {"latest", "older"}
    /\ row \in Rows(variant)
    /\ regions = NoRegions /\ art_img = None /\ log = <<>>
    /\ canvas = NoCanvas /\ result = NoCanvas /\ cardPc = "background"
    /\ WrapIdle /\ FitIdle /\ CoverIdle /\ BatchIdle /\ DrawIdle /\ ToolsIdle

\* outer = vertical_gradient((PX_W, PX_H), ...).convert("RGBA");
\* outer.alpha_composite(noise_texture(...))
Background ==
    /\ cardPc = "background"
    /\ canvas' = [size |-> <<PX_W, PX_H(variant)>>, mode |-> "RGBA"]
    /\ log' = log \o BackgroundOps
    /\ cardPc' = IF variant = "latest" THEN "regions" ELSE "frame"
    /\ UNCHANGED <<variant, row, regions, art_img, result,
                   wrapVars, fitVars, coverVars,
                   batchVars, drawVars, toolVars>>

\* name_rect, art_rect, ... = compute_regions()
ComputeRegions ==
    /\ cardPc = "regions"
    /\ regions' = compute_regions(variant)
    /\ cardPc' = IF variant = "latest" THEN "frame" ELSE "plaques"
    /\ UNCHANGED <<variant, row, art_img, log, canvas, result,
                   wrapVars, fitVars, coverVars,
                   batchVars, drawVars, toolVars>>

\* draw_card_frame (latest); the `# Frame` block of build_card (older)
DrawCardFrame ==
    /\ cardPc = "frame"
    /\ log' = log \o FrameOps
    /\ cardPc' = IF variant = "latest" THEN "plaques" ELSE "regions"
    /\ UNCHANGED <<variant, row, regions, art_img, canvas, result,
                   wrapVars, fitVars, coverVars,
                   batchVars, drawVars, toolVars>>

\* draw_card_plaques: the name, type, rules, stats and footer plaques
DrawCardPlaques ==
    /\ cardPc = "plaques"
    /\ log' = log \o PlaqueOps
    /\ cardPc' = "art"
    /\ UNCHANGED <<variant, row, regions, art_img, canvas, result,
                   wrapVars, fitVars, coverVars,
                   batchVars, drawVars, toolVars>>

\* draw_card_art: locate_art, paste_art (cover_fit and alpha_composite) when
\* an image was found, draw_art_bevel
DrawCardArt ==
    /\ cardPc = "art"
    /\ LET r == locate_art(variant, row.art)
       IN IF r.raised
          THEN /\ cardPc' = "raised"
               /\ UNCHANGED <<art_img, log, coverVars>>
          ELSE /\ art_img' = r.img
               /\ log' = log \o ArtOps(r.img)
               /\ cardPc' = "name"
               /\ IF r.img.found
                  THEN /\ image_size' = r.img.size
                       /\ crop_box' = CoverBox(r.img.size[1], r.img.size[2],
                                               ART_W, ART_H)
                       /\ fitted_size' = CoverSize(ART_W, ART_H)
                       /\ coverPc' = "done"
                  ELSE UNCHANGED coverVars
    /\ UNCHANGED <<variant, row, regions, canvas, result, wrapVars, fitVars,
                   batchVars, drawVars, toolVars>>

\* draw_card_name_and_cost
DrawCardNameAndCost ==
    /\ cardPc = "name"
    /\ log' = log \o NameCostOps(variant, row)
    /\ cardPc' = "type"
    /\ UNCHANGED <<variant, row, regions, art_img, canvas, result,
                   wrapVars, fitVars, coverVars,
                   batchVars, drawVars, toolVars>>

\* draw_card_type_and_badge
DrawCardTypeAndBadge ==
    /\ cardPc = "type"
    /\ log' = log \o TypeBadgeOps
    /\ cardPc' = "stats"
    /\ UNCHANGED <<variant, row, regions, art_img, canvas, result,
                   wrapVars, fitVars, coverVars,
                   batchVars, drawVars, toolVars>>

\* draw_card_stats
DrawCardStats ==
    /\ cardPc = "stats"
    /\ log' = log \o StatsOps
    /\ cardPc' = "footer"
    /\ UNCHANGED <<variant, row, regions, art_img, canvas, result,
                   wrapVars, fitVars, coverVars,
                   batchVars, drawVars, toolVars>>

\* draw_card_footer
DrawCardFooter ==
    /\ cardPc = "footer"
    /\ log' = log \o FooterOps
    /\ cardPc' = "rules"
    /\ UNCHANGED <<variant, row, regions, art_img, canvas, result,
                   wrapVars, fitVars, coverVars,
                   batchVars, drawVars, toolVars>>

\* draw_card_rules_and_flavor: the call of
\* draw_rules_flavor_centered(outer, rules_rect, ability, flavor).  The
\* function then runs its shrink loop (LoopIter) and its drawing part
\* (DrawRulesFlavor).
CallRulesAndFlavor ==
    /\ cardPc = "rules"
    /\ ability' = row.ability
    /\ flavor' = row.flavor
    /\ rules_rect' = regions.rules
    /\ ability_size' = start_ability /\ flavor_size' = start_flavor
    /\ decrements' = 0 /\ total_h' = 0 /\ drawn' = <<>> /\ fitPc' = "loop"
    /\ cardPc' = "in_rules"
    /\ UNCHANGED <<variant, row, regions, art_img, log, canvas, result,
                   wrapVars, coverVars,
                   batchVars, drawVars, toolVars>>

\* draw_rules_flavor_centered has drawn the block and returns to build_card
RulesAndFlavorDrawn ==
    /\ cardPc = "in_rules" /\ fitPc = "done"
    /\ log' = log \o RulesOps
    /\ cardPc' = "return"
    /\ UNCHANGED <<variant, row, regions, art_img, canvas, result,
                   wrapVars, fitVars, coverVars,
                   batchVars, drawVars, toolVars>>

\* return outer
ReturnCard ==
    /\ cardPc = "return"
    /\ result' = canvas
    /\ cardPc' = "returned"
    /\ UNCHANGED <<variant, row, regions, art_img, log, canvas,
                   wrapVars, fitVars, coverVars,
                   batchVars, drawVars, toolVars>>

NextCard ==
    \/ Background \/ ComputeRegions \/ DrawCardFrame \/ DrawCardPlaques
    \/ DrawCardArt \/ DrawCardNameAndCost \/ DrawCardTypeAndBadge
    \/ DrawCardStats \/ DrawCardFooter
    \/ CallRulesAndFlavor \/ LoopIter \/ DrawRulesFlavor \/ RulesAndFlavorDrawn
    \/ ReturnCard

SpecCard == InitCard /\ [][NextCard]_vars

\* build_card runs to its end: it is never suspended.
FairSpecCard == SpecCard /\ WF_vars(NextCard)

\* C7: compute_regions returns six rectangles (name, art, type, rules,
\* stats, footer) that each satisfy x0 < x1 and y0 < y1, and the rules
\* rectangle has height >= 0, on the 750x1024 and on the 750x1050 canvas.
C7_RegionsNonDegenerate ==
    regions # NoRegions =>
        /\ DOMAIN regions = RegionNames
        /\ \A k \in RegionNames :
               regions[k][1] < regions[k][3] /\ regions[k][2] < regions[k][4]
        /\ regions.rules[4] - regions.rules[2] >= 0
        /\ canvas.size \in {<<750, 1024>>, <<750, 1050>>}

\* The older generator (750x1050) has computed its regions and drawn a card.
C7_Witness ==
    /\ cardPc = "returned" /\ variant = "older"
    /\ canvas.size = <<750, 1050>>
    /\ regions.rules = <<32, 569, 718, 895>>

\* C8: the art box lies strictly inside the canvas; the rules box top is the
\* type box bottom plus a gap g and the rules box bottom is the stats box top
\* minus the same g; the regions are those of the canvas constants whatever
\* the row is, at every step of the card.
C8_RegionsFromCanvas ==
    regions # NoRegions =>
        /\ 0 < regions.art[1] /\ regions.art[3] < canvas.size[1]
        /\ 0 < regions.art[2] /\ regions.art[4] < canvas.size[2]
        /\ \E g \in 0..canvas.size[2] :
               /\ regions.rules[2] = regions.type[4] + g
               /\ regions.rules[4] = regions.stats[2] - g
        /\ regions = (IF variant = "latest" THEN regions_latest
                      ELSE regions_older)

\* The latest generator (750x1024) has drawn a card of a row with artwork
\* and abilities: its rules box is 5 pixels below the type box and 5 pixels
\* above the stats box.
C8_Witness ==
    /\ cardPc = "returned" /\ variant = "latest"
    /\ art_img.found /\ row.ability # <<>>
    /\ regions.type[4] = 519 /\ regions.stats[2] = 909
    /\ regions.rules = <<32, 524, 718, 904>>

\* The stages of build_card in the order of C9, and the stage each drawing
\* operation belongs to.
StageOrder ==
    <<"background", "frame", "plaques", "art_paste", "art_bevel", "name_text",
      "cost_indicator", "type_text", "faction_badge", "stats_line", "footer",
      "rules_flavor">>
StageOf(op) ==
    IF op \in {"plaque_name", "plaque_type", "plaque_rules", "plaque_stats",
               "plaque_foot"} THEN "plaques"
    ELSE IF op \in {"footer_plaque", "footer_text"} THEN "footer"
    ELSE op
Rank(op) == CHOOSE k \in 1..Len(StageOrder) : StageOrder[k] = StageOf(op)
Stages(l) == {StageOf(l[i]) : i \in 1..Len(l)}
IsPrefix(a, b) == Len(a) <= Len(b) /\ SubSeq(b, 1, Len(a)) = a

\* The operations drawn so far are in stage order, and no operation twice.
LogInOrder ==
    /\ \A i \in 1..Len(log) : StageOf(log[i]) \in Stages(StageOrder)
    /\ \A i, j \in 1..Len(log) :
           i < j => Rank(log[i]) <= Rank(log[j]) /\ log[i] # log[j]

\* C9: in every run of build_card the drawing stages that run occur in the
\* order background, faction frame, the five plaques, artwork paste, art
\* bevel, name text, cost indicator, type text, faction badge, stats line,
\* footer, rules/flavor block: every step only appends operations of later
\* stages, the bevel comes after the paste, the badge after the type text,
\* and the rules/flavor block is the last operation of a returned card.
C9_StagesInOrder ==
    /\ [](LogInOrder
          /\ (cardPc = "returned" =>
                 /\ log[Len(log)] = "rules_flavor"
                 /\ Stages(log) \cup {"art_paste", "cost_indicator"}
                        = Stages(StageOrder)
                 /\ Cardinality({i \in 1..Len(log) :
                                    StageOf(log[i]) = "plaques"}) = 5))
    /\ [][IsPrefix(log, log')
          /\ \A i \in 1..Len(log) : \A j \in (Len(log) + 1)..Len(log') :
                 Rank(log[i]) < Rank(log'[j])]_vars

\* A returned card on which every stage ran, the optional artwork paste and
\* cost indicator included.
C9_Witness ==
    /\ cardPc = "returned"
    /\ Stages(log) = Stages(StageOrder)
    /\ Len(log) = 17

\* No artwork file of the row decodes: each is absent or corrupt.
NoArtwork ==
    /\ cardPc # "idle"
    /\ \A i \in 1..Len(row.art) : row.art[i].st \in {"absent", "corrupt"}

RECURSIVE FirstDecodable(_, _)
FirstDecodable(files, i) ==
    IF i > Len(files) THEN None
    ELSE IF files[i].st = "ok" THEN [found |-> TRUE, size |-> files[i].size]
    ELSE FirstDecodable(files, i + 1)

\* C11: locate_art tries the primary path first, then the row's artwork
\* field, the files matching the card ID and the files matching the
\* slugified name, and returns the first candidate that exists and opens; a
\* candidate that fails to open does not stop the search.
C11_ArtFallbackOrder ==
    cardPc \in {"name", "type", "stats", "footer", "rules", "in_rules",
                "return", "returned"}
        => art_img = FirstDecodable(row.art, 1)

----------------------------------------------------------------------------
(* main: the batch.  A row of the table is [set, card_id, cost, bad]: its  *)
(* set folder, its card ID, the faction keys of its cost tokens, and       *)
(* whether its Faction cell holds a line break (draw_faction_badge then    *)
(* raises ValueError from textlength, in both generators).                 *)

\* FACTION_DATA as written in the source, in dictionary order; "none" is None
FACTION_TABLE ==
    << [key |-> "espenlock", orb |-> "orb_energy.png", orb_img |-> "none",
        alias |-> <<"espen", "espenlock">>],
       [key |-> "stag", orb |-> "orb_munitions.png", orb_img |-> "none",
        alias |-> <<"stag">>],
       [key |-> "cow", orb |-> "orb_faith.png", orb_img |-> "none",
        alias |-> <<"cow", "warlock">>],
       [key |-> "survivor", orb |-> "orb_supplies.png", orb_img |-> "none",
        alias |-> <<"survivor">>],
       [key |-> "special", orb |-> "none", orb_img |-> "none",
        alias |-> <<"special">>],
       [key |-> "players", orb |-> "none", orb_img |-> "none",
        alias |-> <<"players">>] >>

\* preload_orb_images(): orb_img is the decoded image where the faction
\* names an orb file and the file is there and decodes, and None otherwise
preload_orb_images(tbl, orb_files_ok) ==
    [i \in 1..Len(tbl) |->
        [tbl[i] EXCEPT !.orb_img = IF tbl[i].orb # "none" /\ orb_files_ok
                                   THEN "image" ELSE "none"]]

\* Variant: the resized token image is stored back into the table.
place_orb_table_inplace(tbl, tokens) ==
    [i \in 1..Len(tbl) |->
        IF (\E k \in 1..Len(tokens) : tokens[k] = tbl[i].key)
           /\ tbl[i].orb_img # "none"
        THEN [tbl[i] EXCEPT !.orb_img = "resized"] ELSE tbl[i]]

\* The style table after place_orb_number_left_centered: each token image is
\* orb_img.copy().convert("RGBA").resize(...), a new image; the table is only
\* read.
place_orb_table(tbl, tokens) == tbl

\* Variant: a failed read leaves an empty table and main goes on.
read_csv_lenient(ok) == [raised |-> FALSE]

\* df = pd.read_csv(csv_path).reset_index(drop=True)
read_csv(ok) == [raised |-> ~ok]

\* df.iloc[r]: a negative r counts from the end of the table
iloc(tbl, r) == tbl[IF r < 0 THEN Len(tbl) + r + 1 ELSE r + 1]

\* df.iloc[r] raises IndexError
iloc_raises(tbl, r) == r >= Len(tbl) \/ r < 0 - Len(tbl)

\* set_folder of a row: the sanitised Set/Edition value, "" for an empty or
\* missing one; the older generator takes "UnknownSet" for "".
set_folder_of(v, r) ==
    IF v = "older" /\ r.set = "" THEN "UnknownSet" ELSE r.set

\* Variant: only the set of the first selected row is collected.
collect_set_names_first(tbl, sel) ==
    IF sel = <<>> THEN {} ELSE {iloc(tbl, sel[1]).set}

\* set_names: the set folders of the selected rows
collect_set_names(tbl, sel) == {iloc(tbl, sel[k]).set : k \in 1..Len(sel)}

\* The output path of row idx (0-based): the set folder, and
\* "{abbr}_{idx+1}_co.png" in the latest generator, "{card id}_co.png" in
\* the older one.
OutPath(v, idx, r) ==
    IF v = "latest"
    THEN [dir |-> set_folder_of(v, r), stem |-> r.set, n |-> idx + 1]
    ELSE [dir |-> set_folder_of(v, r), stem |-> r.card_id, n |-> 0]

Stale == 0 - 1
StaleFile(d) == [dir |-> d, stem |-> "stale", n |-> 0, by |-> Stale]

\* padded.save(outpath): the file at the path now holds the image of row idx
save(fs, path, idx) ==
    {f \in fs : ~(f.dir = path.dir /\ f.stem = path.stem /\ f.n = path.n)}
    \cup {[dir |-> path.dir, stem |-> path.stem, n |-> path.n, by |-> idx]}

\* shutil.rmtree(set_outdir): the files left.  The folder "" is the output
\* directory itself (os.path.join(outdir, "")).
rmtree(fs, d) == IF d = "" THEN {} ELSE {f \in fs : f.dir # d}

\* shutil.rmtree(set_outdir): the directories left
rmtree_dirs(ds, d) == IF d = "" THEN {} ELSE ds \ {d}

\* f"{int(index) + 1}/{int(total_cards) if total_cards is not None else 1}"
\* for build_card(..., row_index=idx, total_cards=len(df))
footer_ordinal(idx, tbl) == [k |-> idx + 1, n |-> Len(tbl)]

\* build_card raises for the row
build_card_raises(r) == r.bad

RECURSIVE InRange(_, _)
InRange(list, n) ==
    IF list = <<>> THEN <<>>
    ELSE IF 0 <= Head(list) /\ Head(list) < n
         THEN <<Head(list)>> \o InRange(Tail(list), n)
         ELSE InRange(Tail(list), n)

AllRows(n) == [k \in 1..n |-> k - 1]

----------------------------------------------------------------------------
(* SpecBatch: one call of main, for both generators.                       *)

MaxRows == 2             \* rows of the input table
MaxSel == 2              \* length of the rows parameter

SetFolders == {"s1", "s2"}
\* The rows: two sets, one Card ID used in both, a row whose Set/Edition is
\* empty and a row build_card raises for.
BatchRows ==
    {[set |-> "s1", card_id |-> "c1", cost |-> <<"espenlock">>, bad |-> FALSE],
     [set |-> "", card_id |-> "c2", cost |-> <<>>, bad |-> FALSE],
     [set |-> "s2", card_id |-> "c1", cost |-> <<"cow", "espenlock">>,
      bad |-> FALSE],
     [set |-> "s1", card_id |-> "c3", cost |-> <<>>, bad |-> TRUE]}
Tables == UNION {[1..n -> BatchRows] : n \in 0..MaxRows}
\* The rows parameter: not given, or a list of row numbers; MaxRows is out
\* of range for every table and -1 is the last row for df.iloc.
RowLists == UNION {[1..n -> (0 - 1)..MaxRows] : n \in 0..MaxSel}

\* The output directory before the run: absent, or there with a folder that
\* belongs to no set of the table and some of the set folders; "" is the
\* output directory itself.
OutDirs == {{}} \cup {{"", "other"} \cup S : S \in SUBSET SetFolders}
RowsArgs ==
    {[given |-> FALSE, list |-> <<>>]}
    \cup {[given |-> TRUE, list |-> l] : l \in RowLists}

InitBatch ==
    /\ variant \in {"latest", "older"}
    /\ csv_ok \in BOOLEAN
    /\ table \in Tables
    /\ csv_ok = FALSE => Len(table) = 1
    /\ rows_arg \in RowsArgs
    /\ \E orb_files_ok \in BOOLEAN :
           FACTION_DATA = IF variant = "latest"
                          THEN preload_orb_images(FACTION_TABLE, orb_files_ok)
                          ELSE <<>>
    /\ SURV_TOTAL = 0 /\ selected_rows = <<>> /\ set_names = {}
    /\ dirs \in OutDirs
    /\ out_files = {StaleFile(d) : d \in dirs}
    /\ removed = {} /\ bi = 1 /\ rendered = <<>> /\ batchPc = "read"
    /\ row = NoRow /\ regions = NoRegions /\ art_img = None /\ log = <<>>
    /\ canvas = NoCanvas /\ result = NoCanvas /\ cardPc = "idle"
    /\ WrapIdle /\ FitIdle /\ CoverIdle /\ DrawIdle /\ ToolsIdle

batchFrame == <<wrapVars, fitVars, coverVars, variant, row, regions, art_img,
                log, canvas, result, cardPc, csv_ok, table, rows_arg, drawVars,
                toolVars>>

\* df = pd.read_csv(csv_path).reset_index(drop=True);
\* os.environ["SURV_TOTAL"] = str(len(df))
ReadCsv ==
    /\ batchPc = "read"
    /\ IF read_csv(csv_ok).raised
       THEN batchPc' = "raised" /\ UNCHANGED SURV_TOTAL
       ELSE batchPc' = "select" /\ SURV_TOTAL' = Len(table)
    /\ UNCHANGED <<FACTION_DATA, selected_rows, set_names, dirs, out_files,
                   removed, bi, rendered, batchFrame>>

\* Latest generator: selected_rows = [(r, df.iloc[r]) for r in rows] if rows
\* else list(df.iterrows()), then the loop that collects set_names.
\* Older generator: the row numbers out of range are reported and skipped;
\* main returns when none is left.
SelectRows ==
    /\ batchPc = "select"
    /\ IF variant = "latest"
       THEN IF rows_arg.given /\ rows_arg.list # <<>>
            THEN IF \E k \in 1..Len(rows_arg.list) :
                        iloc_raises(table, rows_arg.list[k])
                 THEN /\ batchPc' = "raised"
                      /\ UNCHANGED <<selected_rows, set_names>>
                 ELSE /\ selected_rows' = rows_arg.list
                      /\ set_names' = collect_set_names(table, rows_arg.list)
                      /\ batchPc' = "remove"
            ELSE /\ selected_rows' = AllRows(Len(table))
                 /\ set_names' = collect_set_names(table, AllRows(Len(table)))
                 /\ batchPc' = "remove"
       ELSE /\ UNCHANGED set_names
            /\ IF rows_arg.given
               THEN /\ selected_rows' = InRange(rows_arg.list, Len(table))
                    /\ batchPc' = IF InRange(rows_arg.list, Len(table)) = <<>>
                                  THEN "done" ELSE "loop"
               ELSE /\ selected_rows' = AllRows(Len(table))
                    /\ batchPc' = "loop"
    /\ UNCHANGED <<FACTION_DATA, SURV_TOTAL, dirs, out_files, removed, bi,
                   rendered, batchFrame>>

\* for set_folder in set_names: if os.path.exists(set_outdir):
\*     shutil.rmtree(set_outdir)          (one folder per step, in any order)
RemoveSetDir ==
    /\ batchPc = "remove"
    /\ \E d \in set_names :
          /\ set_names' = set_names \ {d}
          /\ IF d \in dirs
             THEN /\ dirs' = rmtree_dirs(dirs, d)
                  /\ out_files' = rmtree(out_files, d)
                  /\ removed' = removed \cup {d}
             ELSE UNCHANGED <<dirs, out_files, removed>>
    /\ UNCHANGED <<FACTION_DATA, SURV_TOTAL, selected_rows, bi, rendered,
                   batchPc, batchFrame>>

\* the removal loop is over
RemoveDone ==
    /\ batchPc = "remove" /\ set_names = {}
    /\ batchPc' = "loop"
    /\ UNCHANGED <<FACTION_DATA, SURV_TOTAL, selected_rows, set_names, dirs,
                   out_files, removed, bi, rendered, batchFrame>>

\* One iteration of `for idx, row in selected_rows`: build_card,
\* os.makedirs(set_outdir, exist_ok=True), padded.save(outpath).  No
\* statement of the loop is inside a try.
RenderRow ==
    /\ batchPc = "loop" /\ bi <= Len(selected_rows)
    /\ LET idx == selected_rows[bi]
           r == iloc(table, idx)
       IN /\ FACTION_DATA' = IF variant = "latest"
                             THEN place_orb_table(FACTION_DATA, r.cost)
                             ELSE FACTION_DATA
          /\ IF build_card_raises(r)
             THEN /\ batchPc' = "raised"
                  /\ UNCHANGED <<dirs, out_files, bi, rendered>>
             ELSE /\ dirs' = dirs \cup {"", set_folder_of(variant, r)}
                  /\ out_files' = save(out_files, OutPath(variant, idx, r), idx)
                  /\ rendered' = Append(rendered, idx)
                  /\ bi' = bi + 1
                  /\ UNCHANGED batchPc
    /\ UNCHANGED <<SURV_TOTAL, selected_rows, set_names, removed, batchFrame>>

\* the loop is over: main returns
BatchEnd ==
    /\ batchPc = "loop" /\ bi > Len(selected_rows)
    /\ batchPc' = "done"
    /\ UNCHANGED <<FACTION_DATA, SURV_TOTAL, selected_rows, set_names, dirs,
                   out_files, removed, bi, rendered, batchFrame>>

NextBatch ==
    \/ ReadCsv \/ SelectRows \/ RemoveSetDir \/ RemoveDone \/ RenderRow
    \/ BatchEnd

SpecBatch == InitBatch /\ [][NextBatch]_vars

Range(f) == {f[k] : k \in DOMAIN f}

\* C12: when rendering or saving one selected row raises, every remaining
\* selected row is still rendered and written: when main has ended, every
\* selected row whose rendering does not raise has been written.
C12_RowFailureDoesNotEndBatch ==
    batchPc \in {"done", "raised"} =>
        \A k \in 1..Len(selected_rows) :
            ~build_card_raises(iloc(table, selected_rows[k]))
                => selected_rows[k] \in Range(rendered)

\* C13: when the input table cannot be opened or parsed, main stops with an
\* error before any row is rendered, before any output directory is deleted
\* or created, and before any file is written.
C13_UnreadableTableStopsFirst ==
    /\ [](~csv_ok /\ batchPc \notin {"idle", "read"} =>
             batchPc = "raised" /\ rendered = <<>> /\ removed = {})
    /\ [][~csv_ok /\ batchPc # "idle" =>
             UNCHANGED <<dirs, out_files, rendered, removed>>]_vars

\* main has stopped on an unreadable table; a stale output directory of the
\* set of its row is still there.
C13_Witness ==
    /\ ~csv_ok /\ batchPc = "raised" /\ variant = "latest"
    /\ table[1].set \in dirs
    /\ StaleFile(table[1].set) \in out_files

\* The set folders that have at least one selected row.
SelectedSets ==
    {set_folder_of(variant, iloc(table, selected_rows[k])) :
         k \in 1..Len(selected_rows)}

\* C14: in the latest generator, every existing output subdirectory of a set
\* with at least one selected row is deleted before the first card of the
\* batch is written, and from then on each such subdirectory holds only
\* files written by this batch.
C14_SetDirsReplaced ==
    variant = "latest" /\ rendered # <<>> =>
        /\ set_names = {}
        /\ \A f \in out_files :
               f.dir \in SelectedSets => f.by \in Range(rendered)
        /\ \A d \in removed : d \in SelectedSets

\* Two sets are selected, both directories existed and were removed, and a
\* card has been written.
C14_Witness ==
    /\ variant = "latest" /\ batchPc = "done"
    /\ removed = {"s1", "s2"} /\ Len(rendered) = 2
    /\ Cardinality({f \in out_files : f.dir \in {"s1", "s2"}}) = 2
    /\ StaleFile("other") \in out_files

\* C15: any two distinct rows rendered in one batch are written to different
\* output paths, and no row's image overwrites another row's image: the
\* image of every rendered row is still in its file.
C15_DistinctOutputPaths ==
    /\ \A i, j \in Range(rendered) :
           i # j => OutPath(variant, i, iloc(table, i))
                        # OutPath(variant, j, iloc(table, j))
    /\ \A i \in Range(rendered) : \E f \in out_files : f.by = i

----------------------------------------------------------------------------
(* faction_key_from_text.  A text is a sequence of words, a word a sequence *)
(* of characters.  An alias holds no space, so it is a substring of the     *)
(* text exactly when it is a substring of one of its words.                 *)

LowerCase == <<"a", "b", "c", "d", "e", "f", "g", "h", "i", "j", "k", "l", "m", "n", "o", "p", "q", "r", "s", "t", "u", "v", "w", "x", "y", "z">>
UpperCase == <<"A", "B", "C", "D", "E", "F", "G", "H", "I", "J", "K", "L", "M", "N", "O", "P", "Q", "R", "S", "T", "U", "V", "W", "X", "Y", "Z">>

\* The characters of the words and aliases used here.
Letters(w) ==
    CASE w = "Cult" -> <<"C", "u", "l", "t">>
      [] w = "of" -> <<"o", "f">>
      [] w = "Warlock" -> <<"W", "a", "r", "l", "o", "c", "k">>
      [] w = "The" -> <<"T", "h", "e">>
      [] w = "Hostages" -> <<"H", "o", "s", "t", "a", "g", "e", "s">>
      [] w = "Stag" -> <<"S", "t", "a", "g">>
      [] w = "Clan" -> <<"C", "l", "a", "n">>
      [] w = "Survivor" -> <<"S", "u", "r", "v", "i", "v", "o", "r">>
      [] w = "Espen" -> <<"E", "s", "p", "e", "n">>
      [] w = "espen" -> <<"e", "s", "p", "e", "n">>
      [] w = "espenlock" -> <<"e", "s", "p", "e", "n", "l", "o", "c", "k">>
      [] w = "stag" -> <<"s", "t", "a", "g">>
      [] w = "cow" -> <<"c", "o", "w">>
      [] w = "warlock" -> <<"w", "a", "r", "l", "o", "c", "k">>
      [] w = "survivor" -> <<"s", "u", "r", "v", "i", "v", "o", "r">>
      [] w = "special" -> <<"s", "p", "e", "c", "i", "a", "l">>
      [] w = "players" -> <<"p", "l", "a", "y", "e", "r", "s">>

ToLower(c) ==
    IF \E i \in 1..Len(UpperCase) : UpperCase[i] = c
    THEN LowerCase[CHOOSE i \in 1..Len(UpperCase) : UpperCase[i] = c]
    ELSE c
ToUpper(c) ==
    IF \E i \in 1..Len(LowerCase) : LowerCase[i] = c
    THEN UpperCase[CHOOSE i \in 1..Len(LowerCase) : LowerCase[i] = c]
    ELSE c

\* Variant: the text is matched as written.
str_lower_missing(chars) == chars

\* str(text).lower(), word by word
str_lower(chars) == [i \in 1..Len(chars) |-> ToLower(chars[i])]

\* alias in s, for one word of s
Contains(alias, chars) ==
    \E off \in 0..(Len(chars) - Len(alias)) :
        \A i \in 1..Len(alias) : chars[off + i] = alias[i]

\* alias in s
AliasIn(alias, text) ==
    \E k \in 1..Len(text) : Contains(Letters(alias), str_lower(text[k]))

\* Latest generator: the first key of FACTION_DATA, in dictionary order, one
\* of whose aliases is in the lowered text; "XXX" when there is none.
RECURSIVE key_from_table(_, _, _)
key_from_table(tbl, i, text) ==
    IF i > Len(tbl) THEN "XXX"
    ELSE IF \E a \in 1..Len(tbl[i].alias) : AliasIn(tbl[i].alias[a], text)
         THEN tbl[i].key
         ELSE key_from_table(tbl, i + 1, text)

\* Older generator: the chain of `if "..." in s: return ...`
key_from_chain(text) ==
    IF AliasIn("espen", text) THEN "espenlock"
    ELSE IF AliasIn("stag", text) THEN "stag"
    ELSE IF AliasIn("cow", text) \/ AliasIn("warlock", text) THEN "cow"
    ELSE IF AliasIn("survivor", text) THEN "survivor"
    ELSE IF AliasIn("special", text) THEN "special"
    ELSE "survivor"

faction_key_from_text(v, text) ==
    IF v = "latest" THEN key_from_table(FACTION_TABLE, 1, text)
    ELSE key_from_chain(text)

----------------------------------------------------------------------------
(* The cost indicator.  A cost cell is a sequence of parts, each a number  *)
(* and the letter that follows it ("" when no letter follows).             *)

FACTION_COST_CODE_MAP(code) ==
    CASE code = "E" -> "espenlock"
      [] code = "M" -> "stag"
      [] code = "F" -> "cow"
      [] code = "S" -> "survivor"
      [] OTHER -> "none"

\* len(str(n))
Digits(n) == IF n < 10 THEN 1 ELSE 2

Repeat(x, n) == [i \in 1..n |-> x]

\* for part in re.findall(r"(\d+)([A-Za-z])", cost): tokens.extend(...)
RECURSIVE cost_tokens(_)
cost_tokens(cell) ==
    IF cell = <<>> THEN <<>>
    ELSE LET part == Head(cell)
             fkey == FACTION_COST_CODE_MAP(ToUpper(part.code))
         IN  (IF part.code # "" /\ fkey # "none"
              THEN Repeat(fkey, part.num) ELSE <<>>) \o cost_tokens(Tail(cell))

\* parse_cost_number (older generator): the number of digits of the first
\* run of digits, 0 for "".
parse_cost_number(cell) == IF cell = <<>> THEN 0 ELSE Digits(cell[1].num)

\* FACTION_DATA.get(key, {}).get("orb_img")
orb_img_of(tbl, key) ==
    IF \E i \in 1..Len(tbl) : tbl[i].key = key
    THEN tbl[CHOOSE i \in 1..Len(tbl) : tbl[i].key = key].orb_img
    ELSE "none"

NoNumeral == <<0, 0, 0, 0>>
Square(x, y, size) == <<x, y, x + size, y + size>>

\* The squares of the tokens of the latest generator: one row for one or two
\* tokens, two rows for three or more (the first n_bottom in the lower row).
token_squares(name_rect, n) ==
    LET plaque_h == name_rect[4] - name_rect[2]
        token_size == (plaque_h * 35) \div 100
        gap == 4
        n_bottom == (n + 1) \div 2
        n_top == n \div 2
        start_y == name_rect[2] + (plaque_h - (2 * token_size + gap)) \div 2
        row_w(m) == IF m > 0 THEN m * token_size + (m - 1) * gap ELSE 0
        xs(m, i) == name_rect[3] - 10 - row_w(m) + (i - 1) * (token_size + gap)
        y_mid == name_rect[2] + (plaque_h - token_size) \div 2
    IN  [i \in 1..n |->
            IF n <= 2 THEN Square(xs(n, i), y_mid, token_size)
            ELSE IF i <= n_bottom
                 THEN Square(xs(n_bottom, i), start_y + token_size + gap,
                             token_size)
                 ELSE Square(xs(n_top, i - n_bottom), start_y, token_size)]

\* place_orb_number_left_centered(base, name_rect, row), latest generator:
\* the token images that are pasted; no text is drawn.
place_orbs_latest(tbl, name_rect, cell) ==
    LET tokens == cost_tokens(cell)
        sq == token_squares(name_rect, Len(tokens))
        pasted == {i \in 1..Len(tokens) : orb_img_of(tbl, tokens[i]) # "none"}
    IN  [numeral |-> FALSE, text |-> NoNumeral,
         icons |-> {sq[i] : i \in pasted}]

\* place_orb_number_left_centered(base, name_rect, orb_img, cost_num), older
\* generator.
place_orb_number_older(name_rect, orb_img, cost_digits) ==
    LET plaque_h == name_rect[4] - name_rect[2]
        target == (plaque_h * 80) \div 100
        x == name_rect[3] - target - 10
        y == name_rect[2] + (plaque_h - target) \div 2
        f == load_font((target * 55) \div 100, FALSE)
        tw == TextLength(<<cost_digits>>, f)
        th == HgHeight(f)
        tx == IF orb_img = "none" THEN name_rect[3] - 20 - tw ELSE x - tw - 10
        ty == IF orb_img = "none"
              THEN (name_rect[2] + name_rect[4] - th) \div 2
              ELSE y + (target - th) \div 2
    IN  [numeral |-> cost_digits > 0,
         text |-> IF cost_digits > 0 THEN <<tx, ty, tx + tw, ty + th>>
                  ELSE NoNumeral,
         icons |-> IF orb_img = "none" THEN {} ELSE {Square(x, y, target)}]

place_orb_number_left_centered(v, tbl, name_rect, orb_img, cell) ==
    IF v = "latest" THEN place_orbs_latest(tbl, name_rect, cell)
    ELSE place_orb_number_older(name_rect, orb_img, parse_cost_number(cell))

----------------------------------------------------------------------------
(* The stats line.  A stat cell is what the row holds for one stat: an     *)
(* integer, a text that is no integer, nothing ("" or NaN), or the stat is *)
(* absent (latest: no such column; older: not named in the Stats string).  *)

StatNames(v) == IF v = "latest" THEN {"power", "toughness"}
                ELSE {"hp", "atk", "def"}

\* except: power = 0 / toughness = 0;  except: hp,atk,deff = 10,2,1
StatFallback(v, name) ==
    IF v = "latest" THEN 0
    ELSE CASE name = "hp" -> 10 [] name = "atk" -> 2 [] OTHER -> 1

\* row.get(COL_POWER, "2"), row.get(COL_TOUGHNESS, "1");
\* vals.get('hp',10), vals.get('atk',2), vals.get('def',1)
StatDefault(v, name) ==
    IF v = "latest" THEN (IF name = "power" THEN 2 ELSE 1)
    ELSE StatFallback(v, name)

\* int(...) raises ValueError
IntRaises(cell) == cell.kind \in {"text", "empty"}

\* Latest generator: one try per stat.
stats_latest(fields) ==
    [name \in DOMAIN fields |->
        IF fields[name].kind = "absent" THEN StatDefault("latest", name)
        ELSE IF IntRaises(fields[name]) THEN StatFallback("latest", name)
        ELSE fields[name].n]

\* Older generator: one try around the parsing of the whole Stats string; an
\* empty string has one part without a colon, which raises IndexError.
stats_older(fields) ==
    IF (\A name \in DOMAIN fields : fields[name].kind = "absent")
       \/ (\E name \in DOMAIN fields : IntRaises(fields[name]))
    THEN [name \in DOMAIN fields |-> StatFallback("older", name)]
    ELSE [name \in DOMAIN fields |->
             IF fields[name].kind = "absent" THEN StatDefault("older", name)
             ELSE fields[name].n]

\* The numbers of stats_texts
stats_texts(v, fields) ==
    IF v = "latest" THEN stats_latest(fields) ELSE stats_older(fields)

----------------------------------------------------------------------------
(* The footer texts.  A text is given by its number of characters.         *)

\* bbox = d.textbbox((0,0), text, font); bbox[3] - bbox[1]
TextHeight(chars, f) == IF chars = 0 THEN 0 ELSE HgHeight(f)

\* f"{int(index) + 1}/{int(total_cards) if total_cards is not None else 1}":
\* its number of characters (total_cards None is 0 here)
OrdinalChars(index, total_cards) ==
    Digits(index + 1) + 1 + Digits(IF total_cards = 0 THEN 1 ELSE total_cards)

\* The gap between the two lines at the right and their distance from the
\* right edge of the plaque: between_pad and right_pad in the latest
\* generator, id_ordinal_gap and 20 in the older one.
FooterGap(v) == IF v = "latest" THEN 2 ELSE 6
FooterRightPad(v) == IF v = "latest" THEN 10 ELSE 20
FooterTotalGap(v) == IF v = "latest" THEN 8 ELSE 6

\* draw_footer: where the three texts are drawn (x, y of the top left corner
\* and the x of the right end).
draw_footer(v, foot_rect, edition, card_id, index, total_cards) ==
    LET f == load_font(22, FALSE)
        lh == TextHeight(edition, f)
        ordinal == OrdinalChars(index, total_cards)
        tw_id == TextLength(<<card_id>>, f)
        th_id == TextHeight(card_id, f)
        tw_ord == TextLength(<<ordinal>>, f)
        th_ord == TextHeight(ordinal, f)
        total_h_ == th_id + th_ord + FooterTotalGap(v)
        top_y == (foot_rect[2] + foot_rect[4] - total_h_) \div 2
        x_right == foot_rect[3] - FooterRightPad(v)
    IN  [edition |-> [x |-> foot_rect[1] + 20,
                      y |-> (foot_rect[2] + foot_rect[4] - lh) \div 2,
                      right |-> foot_rect[1] + 20 + TextLength(<<edition>>, f)],
         ordinal |-> [x |-> x_right - tw_ord, y |-> top_y, right |-> x_right],
         card_id |-> [x |-> x_right - tw_id,
                      y |-> top_y + th_ord + FooterGap(v),
                      right |-> x_right]]

----------------------------------------------------------------------------
(* The drawing helpers called on their own: one call of one function, the  *)
(* variable `call` says which.                                              *)

MaxExtra == 1
MaxCostParts == 2
MaxTotal == 3

\* The faction cell of the scenario and the words added to it.
CultOfWarlock == <<"Cult", "of", "Warlock">>
ExtraWords == {"The", "Hostages", "Stag", "Clan", "Survivor", "Espen"}
LetterCases == {"as_written", "lower", "upper"}

RECURSIVE SeqsUpTo(_, _)
SeqsUpTo(S, n) ==
    IF n = 0 THEN {<<>>}
    ELSE LET shorter == SeqsUpTo(S, n - 1)
         IN  shorter \cup {Append(q, x) : q \in {r \in shorter : Len(r) = n - 1},
                                           x \in S}

InCase(c, chars) ==
    [i \in 1..Len(chars) |->
        IF c = "lower" THEN ToLower(chars[i])
        ELSE IF c = "upper" THEN ToUpper(chars[i])
        ELSE chars[i]]

\* The text handed to faction_key_from_text: the words before, the faction
\* text, the words after, all in one letter case.
FactionText(c, before, after) ==
    LET names == before \o CultOfWarlock \o after
    IN  [k \in 1..Len(names) |-> InCase(c, Letters(names[k]))]

FactionInputs ==
    [case : LetterCases, before : SeqsUpTo(ExtraWords, MaxExtra),
     after : SeqsUpTo(ExtraWords, MaxExtra)]

\* The cost cells: up to MaxCostParts parts such as 1E, 2f, 10X or a bare 3.
CostNumbers == {1, 2, 10}
CostCodes == {"E", "f", "X", ""}
CostCells == SeqsUpTo([num : CostNumbers, code : CostCodes], MaxCostParts)

StatValues == {0, 5}
StatCells ==
    {[kind |-> "int", n |-> n] : n \in StatValues}
        \cup {[kind |-> k, n |-> 0] : k \in {"text", "empty", "absent"}}

\* The lengths of the edition and card ID texts ("" and e.g. "SRP Bitterroot",
\* "SRP-BR-001-U"), the row's index and the number of cards (0 for None).
EditionChars == {0, 14}
CardIdChars == {0, 12}
FooterInputs ==
    {in \in [edition : EditionChars, card_id : CardIdChars,
             index : 0..(MaxTotal - 1), total_cards : 0..MaxTotal] :
        in.index < in.total_cards \/ (in.total_cards = 0 /\ in.index = 0)}

InitDraw ==
    /\ variant \in {"latest", "older"}
    /\ call \in {"key", "cost", "stats", "footer"}
    /\ IF call = "key"
       THEN \E in \in FactionInputs :
                faction_text = [in |-> in,
                                text |-> FactionText(in.case, in.before, in.after)]
       ELSE faction_text = <<>>
    /\ faction_key = "none"
    /\ IF call = "cost"
       THEN \E cell \in CostCells, orb_ok \in BOOLEAN :
                cost_in = [cell |-> cell,
                           name_rect |-> compute_regions(variant).name,
                           table |-> IF variant = "latest"
                                     THEN preload_orb_images(FACTION_TABLE, orb_ok)
                                     ELSE <<>>,
                           orb_img |-> IF variant = "older" /\ orb_ok
                                       THEN "image" ELSE "none"]
       ELSE cost_in = NoValue
    /\ IF call = "stats"
       THEN stats_in \in [StatNames(variant) -> StatCells]
       ELSE stats_in = NoValue
    /\ IF call = "footer"
       THEN \E in \in FooterInputs :
                footer_in = [edition |-> in.edition, card_id |-> in.card_id,
                             index |-> in.index, total_cards |-> in.total_cards,
                             foot_rect |-> compute_regions(variant).foot]
       ELSE footer_in = NoValue
    /\ cost_draw = NoValue /\ stats_shown = NoValue /\ footer_draw = NoValue
    /\ drawPc = "call"
    /\ row = NoRow /\ regions = NoRegions /\ art_img = None /\ log = <<>>
    /\ canvas = NoCanvas /\ result = NoCanvas /\ cardPc = "idle"
    /\ WrapIdle /\ FitIdle /\ CoverIdle /\ BatchIdle /\ ToolsIdle

drawFrame == <<wrapVars, fitVars, coverVars, cardVars, batchVars, call,
               faction_text, cost_in, stats_in, footer_in, toolVars>>

\* faction_key = faction_key_from_text(faction_text)
ResolveFaction ==
    /\ drawPc = "call" /\ call = "key"
    /\ faction_key' = faction_key_from_text(variant, faction_text.text)
    /\ drawPc' = "done"
    /\ UNCHANGED <<cost_draw, stats_shown, footer_draw, drawFrame>>

\* place_orb_number_left_centered(...)
PlaceOrbNumber ==
    /\ drawPc = "call" /\ call = "cost"
    /\ cost_draw' = place_orb_number_left_centered(
                         variant, cost_in.table, cost_in.name_rect,
                         cost_in.orb_img, cost_in.cell)
    /\ drawPc' = "done"
    /\ UNCHANGED <<faction_key, stats_shown, footer_draw, drawFrame>>

\* draw_card_stats(outer, stats_rect, row); older generator: the stats row
\* of build_card
DrawStats ==
    /\ drawPc = "call" /\ call = "stats"
    /\ stats_shown' = [raised |-> FALSE,
                       shown |-> stats_texts(variant, stats_in)]
    /\ drawPc' = "done"
    /\ UNCHANGED <<faction_key, cost_draw, footer_draw, drawFrame>>

\* draw_footer(base, foot_rect, row, index, total_cards)
DrawFooter ==
    /\ drawPc = "call" /\ call = "footer"
    /\ footer_draw' = draw_footer(variant, footer_in.foot_rect,
                                  footer_in.edition, footer_in.card_id,
                                  footer_in.index, footer_in.total_cards)
    /\ drawPc' = "done"
    /\ UNCHANGED <<faction_key, cost_draw, stats_shown, drawFrame>>

NextDraw ==
    \/ ResolveFaction
    \/ PlaceOrbNumber
    \/ DrawStats
    \/ DrawFooter

SpecDraw == InitDraw /\ [][NextDraw]_vars

\* An extra word that holds the alias of a faction tried before "cow".
Folded(w) == [i \in 1..Len(Letters(w)) |-> ToLower(Letters(w)[i])]
NamesEarlierFaction(w) ==
    Contains(Letters("espen"), Folded(w)) \/ Contains(Letters("stag"), Folded(w))

\* C17 (as stated): faction_key_from_text returns "cow" for "Cult of
\* Warlock" in any letter case and with any extra words added.
C17_CowWhateverIsAdded ==
    (call = "key" /\ drawPc = "done") => faction_key = "cow"

\* C17: faction_key_from_text returns "cow" for "Cult of Warlock" in any
\* letter case and with extra words added, as long as no added word holds
\* "espen" or "stag", the aliases of the factions tried before "cow".
C17_CowUnlessEarlierAlias ==
    (call = "key" /\ drawPc = "done"
       /\ (\A k \in 1..Len(faction_text.in.before) :
              ~NamesEarlierFaction(faction_text.in.before[k]))
       /\ (\A j \in 1..Len(faction_text.in.after) :
              ~NamesEarlierFaction(faction_text.in.after[j])))
        => faction_key = "cow"

C17_Witness ==
    /\ call = "key" /\ drawPc = "done"
    /\ faction_text.in.case = "upper"
    /\ faction_text.in.before = <<"The">>
    /\ faction_text.in.after = <<"Survivor">>
    /\ faction_key = "cow"

\* C18: when the cost indicator is drawn for a row with a cost, the numeral
\* is drawn; with an icon the numeral ends left of where the icon starts,
\* without an icon the numeral stands alone at the right end of the name
\* plaque, inside it.
C18_NumeralAlwaysDrawn ==
    (call = "cost" /\ drawPc = "done" /\ cost_in.cell # <<>>) =>
        /\ cost_draw.numeral
        /\ \A icon \in cost_draw.icons : cost_draw.text[3] <= icon[1]
        /\ cost_draw.icons = {} =>
               /\ cost_in.name_rect[1] <= cost_draw.text[1]
               /\ cost_draw.text[3] <= cost_in.name_rect[3]
               /\ cost_in.name_rect[3] - cost_draw.text[3]
                      < cost_draw.text[1] - cost_in.name_rect[1]

\* C19: the stats are drawn without raising; a stat whose cell is empty or
\* no integer is shown as its fallback (0 in the latest generator; HP 10,
\* ATK 2, DEF 1 in the older one) and a stat whose cell is an integer is
\* shown with that integer.
C19_FallbackPerField ==
    (call = "stats" /\ drawPc = "done") =>
        /\ ~stats_shown.raised
        /\ \A name \in StatNames(variant) :
               /\ stats_in[name].kind \in {"text", "empty"}
                      => stats_shown.shown[name] = StatFallback(variant, name)
               /\ stats_in[name].kind = "int"
                      => stats_shown.shown[name] = stats_in[name].n

\* C20: draw_footer draws the edition at the left of the footer plaque and,
\* ending at the same x at its right, the card ID and the ordinal, the card
\* ID above the ordinal: the y of the card ID is smaller than the y of the
\* ordinal.
C20_CardIdAboveOrdinal ==
    (call = "footer" /\ drawPc = "done") =>
        /\ footer_draw.edition.x = footer_in.foot_rect[1] + 20
        /\ footer_draw.card_id.right = footer_draw.ordinal.right
        /\ footer_draw.card_id.right <= footer_in.foot_rect[3]
        /\ footer_draw.card_id.y < footer_draw.ordinal.y

----------------------------------------------------------------------------
(* playingcard_generator.py: the pip layout.  A point is <<x, y>>.  The     *)
(* source computes in floating point; for the constants of the module      *)
(* every coordinate it returns is a whole number, which the integer         *)
(* arithmetic below reproduces.  A fraction t is given as num / den.        *)

CARD_W == 730
CARD_H == 1024
PAD_X == 45
PAD_Y == 50
PIP_EXTRA_PAD == 150
PIP_SIZE == 100

SET_L == PAD_X
SET_R == CARD_W - PAD_X
SET_B == PAD_Y + PIP_EXTRA_PAD
SET_T == CARD_H - PAD_Y - PIP_EXTRA_PAD

\* Variant: t is not applied to the span.
lerp_unscaled(a, b, num, den) == a + (b - a) * num

\* def lerp(a, b, t): return a + (b - a) * t
lerp(a, b, num, den) == a + ((b - a) * num) \div den

\* Variant: the rows stop one step short of the far bound.
y_vals_open(rows) == [i \in 1..rows |-> lerp(SET_B, SET_T, i - 1, rows)]

\* y_vals = [lerp(SET_B, SET_T, t)
\*           for t in [i/(rows-1) if rows>1 else 0.5 for i in range(rows)]]
y_vals(rows) ==
    [i \in 1..rows |->
        IF rows > 1 THEN lerp(SET_B, SET_T, i - 1, rows - 1)
        ELSE lerp(SET_B, SET_T, 1, 2)]

Centre == <<lerp(SET_L, SET_R, 1, 2), lerp(SET_B, SET_T, 1, 2)>>

\* Variant: the column is the left column of the even ranks.
column_positions_left(rows) ==
    [i \in 1..rows |-> <<lerp(SET_L, SET_R, 3, 10), y_vals(rows)[i]>>]

\* rank "2" and rank "3": return [(lerp(SET_L, SET_R, 0.5), y) for y in y_vals]
column_positions(rows) ==
    [i \in 1..rows |-> <<lerp(SET_L, SET_R, 1, 2), y_vals(rows)[i]>>]

\* even ranks: for y in y_vals: positions.append((30%, y)), ((70%, y))
even_positions(rows) ==
    [k \in 1..(2 * rows) |->
        <<IF k % 2 = 1 THEN lerp(SET_L, SET_R, 3, 10)
          ELSE lerp(SET_L, SET_R, 7, 10),
          y_vals(rows)[(k + 1) \div 2]>>]

\* center_y = [(y_vals[i]+y_vals[i+1])/2 for i in range(len(y_vals)-1)]
center_y(rows) ==
    [i \in 1..(rows - 1) |-> (y_vals(rows)[i] + y_vals(rows)[i + 1]) \div 2]

\* Variant: rank 9 takes the first midpoint, as rank 7 does.
extra_pips_first(n) ==
    IF n = 5 THEN <<Centre>>
    ELSE IF n \in {7, 9}
         THEN <<<<lerp(SET_L, SET_R, 1, 2), center_y((n - 1) \div 2)[1]>>>>
         ELSE <<>>

\* extra: the pip the odd ranks 5, 7 and 9 add to the layout of n - 1
extra_pips(n) ==
    IF n = 5 THEN <<Centre>>
    ELSE IF n = 7
         THEN <<<<lerp(SET_L, SET_R, 1, 2), center_y((n - 1) \div 2)[1]>>>>
    ELSE IF n = 9
         THEN <<<<lerp(SET_L, SET_R, 1, 2), center_y((n - 1) \div 2)[2]>>>>
    ELSE <<>>

\* The ranks main makes cards for, and two numerals outside 2..10.
NumeralRanks == <<"1", "2", "3", "4", "5", "6", "7", "8", "9", "10", "11">>
Ranks == {NumeralRanks[i] : i \in 1..Len(NumeralRanks)}
             \cup {"A", "J", "Q", "K", "JOKER"}

\* int(rank), str(n)
IntOf(r) == CHOOSE i \in 1..Len(NumeralRanks) : NumeralRanks[i] = r
StrOf(n) == NumeralRanks[n]

RECURSIVE pip_grid_positions(_)
pip_grid_positions(r) ==
    IF r = "JOKER" THEN <<>>
    ELSE IF r \in {"A", "J", "Q", "K"} THEN <<Centre>>
    ELSE IF r = "2" THEN column_positions(2)
    ELSE IF r = "3" THEN column_positions(3)
    ELSE LET n == IntOf(r)
         IN  IF 4 <= n /\ n <= 10
             THEN IF n % 2 = 0 THEN even_positions(n \div 2)
                  ELSE pip_grid_positions(StrOf(n - 1)) \o extra_pips(n)
             ELSE <<>>

\* base.paste(pip, (int(x-50), int(y-50)), pip) for a 100x100 glyph image;
\* the ace pastes one image of 7 * PIP_SIZE pixels.
paste_box(r, pt) ==
    LET size == IF r = "A" THEN PIP_SIZE * 7 ELSE 100
    IN  <<pt[1] - size \div 2, pt[2] - size \div 2,
          pt[1] - size \div 2 + size, pt[2] - size \div 2 + size>>

----------------------------------------------------------------------------
(* SpecPips: pip_grid_positions called on its own, and draw_pips, which    *)
(* pastes one glyph per step.                                              *)

InitPips ==
    /\ pip_caller \in {"direct", "draw_pips"}
    /\ rank \in Ranks
    /\ pip_caller = "draw_pips" => rank \notin {"1", "11"}
    /\ positions = <<>> /\ pip_pastes = <<>> /\ pipPc = "call"
    /\ WrapIdle /\ FitIdle /\ CoverIdle /\ CardIdle /\ BatchIdle /\ DrawIdle
    /\ FontIdle /\ IdIdle

pipFrame == <<wrapVars, fitVars, coverVars, cardVars, batchVars, drawVars,
              pip_caller, rank, fontVars, idVars>>

\* positions = pip_grid_positions(rank)
PipGridPositions ==
    /\ pipPc = "call" /\ pip_caller = "direct"
    /\ positions' = pip_grid_positions(rank)
    /\ pipPc' = "done"
    /\ UNCHANGED <<pip_pastes, pipFrame>>

\* draw_pips: if rank in ["J", "Q", "K", "JOKER"]: return;
\* positions = pip_grid_positions(rank)
DrawPipsStart ==
    /\ pipPc = "call" /\ pip_caller = "draw_pips"
    /\ IF rank \in {"J", "Q", "K", "JOKER"}
       THEN pipPc' = "done" /\ UNCHANGED positions
       ELSE pipPc' = "loop" /\ positions' = pip_grid_positions(rank)
    /\ UNCHANGED <<pip_pastes, pipFrame>>

\* for (x, y) in positions: ... base.paste(pip, ...)
PastePip ==
    /\ pipPc = "loop" /\ Len(pip_pastes) < Len(positions)
    /\ pip_pastes' = Append(pip_pastes,
                            paste_box(rank, positions[Len(pip_pastes) + 1]))
    /\ UNCHANGED <<positions, pipPc, pipFrame>>

PipsDone ==
    /\ pipPc = "loop" /\ Len(pip_pastes) = Len(positions)
    /\ pipPc' = "done"
    /\ UNCHANGED <<positions, pip_pastes, pipFrame>>

NextPips == PipGridPositions \/ DrawPipsStart \/ PastePip \/ PipsDone

SpecPips == InitPips /\ [][NextPips]_vars

\* pip_grid_positions has returned for the rank
Returned(r) == pip_caller = "direct" /\ pipPc = "done" /\ rank = r

\* C21: for each odd rank n of 5, 7, 9, pip_grid_positions(n) is the layout
\* of n - 1 followed by exactly one point in the centre column; its y is the
\* vertical centre for 5, the midpoint of the first two rows of the rank-6
\* layout for 7 and the midpoint of the second and third rows of the rank-8
\* layout for 9.  (Row k of an even layout is its points 2k - 1 and 2k.)
C21_OddAddsCentrePip ==
    \A n \in {5, 7, 9} :
        Returned(StrOf(n)) =>
            LET base == pip_grid_positions(StrOf(n - 1))
            IN  /\ Len(positions) = Len(base) + 1
                /\ SubSeq(positions, 1, Len(base)) = base
                /\ 2 * positions[n][1] = SET_L + SET_R
                /\ 2 * positions[n][2] =
                       (IF n = 5 THEN SET_B + SET_T
                        ELSE IF n = 7 THEN base[1][2] + base[3][2]
                        ELSE base[3][2] + base[5][2])

C21_Witness ==
    /\ Returned("9") /\ Len(positions) = 9
    /\ positions[9] = <<365, 512>> /\ positions[3][2] = 408

\* C22: pip_grid_positions("2") and ("3") return 2 and 3 points, all at half
\* the width of the pip set, the rows evenly spaced from one bound to the
\* other; the layout of "3" does not start with the layout of "2".
C22_SingleColumn ==
    \A rows \in {2, 3} :
        Returned(StrOf(rows)) =>
            /\ Len(positions) = rows
            /\ \A i \in 1..rows :
                   /\ 2 * positions[i][1] = SET_L + SET_R
                   /\ (rows - 1) * positions[i][2]
                          = (rows - 1) * SET_B + (i - 1) * (SET_T - SET_B)
            /\ rows = 3 => ~IsPrefix(pip_grid_positions("2"), positions)

C22_Witness ==
    /\ Returned("3")
    /\ positions = <<<<365, 200>>, <<365, 512>>, <<365, 824>>>>

\* C23: for each even rank n of 4, 6, 8, 10, pip_grid_positions(n) is n/2
\* rows of 2 points, at 30% and 70% of the width of the pip set, the rows
\* evenly spaced with the first on one bound and the last on the other.
C23_EvenTwoColumns ==
    \A n \in {4, 6, 8, 10} :
        Returned(StrOf(n)) =>
            LET rows == n \div 2
            IN  /\ Len(positions) = 2 * rows
                /\ \A k \in 1..rows :
                       /\ 10 * positions[2 * k - 1][1]
                              = 10 * SET_L + 3 * (SET_R - SET_L)
                       /\ 10 * positions[2 * k][1]
                              = 10 * SET_L + 7 * (SET_R - SET_L)
                       /\ positions[2 * k - 1][2] = positions[2 * k][2]
                       /\ (rows - 1) * positions[2 * k][2]
                              = (rows - 1) * SET_B + (k - 1) * (SET_T - SET_B)
                /\ positions[1][2] = SET_B
                /\ positions[n][2] = SET_T

C23_Witness ==
    /\ Returned("10")
    /\ positions[3] = <<237, 356>> /\ positions[10] = <<493, 824>>

\* C29: for every numeral rank n from 2 to 10, pip_grid_positions returns n
\* points, pairwise distinct, all within x in [45, 685] and y in [200, 824],
\* hence inside the 730x1024 card; for "JOKER" it returns no point.
C29_PipsCountedDistinctInside ==
    /\ \A n \in 2..10 :
           Returned(StrOf(n)) =>
               /\ Len(positions) = n
               /\ \A i, j \in 1..Len(positions) :
                      i # j => positions[i] # positions[j]
               /\ \A i \in 1..Len(positions) :
                      /\ 45 <= positions[i][1] /\ positions[i][1] <= 685
                      /\ 200 <= positions[i][2] /\ positions[i][2] <= 824
                      /\ positions[i][1] <= CARD_W
                      /\ positions[i][2] <= CARD_H
    /\ Returned("JOKER") => positions = <<>>

C29_Witness ==
    /\ Returned("7") /\ Len(positions) = 7
    /\ positions[7] = <<365, 356>>

----------------------------------------------------------------------------
(* load_font.  ImageFont.truetype raises OSError when the file is missing. *)

FontFiles == {"DejaVuSerif-Bold.ttf", "DejaVuSerif-Italic.ttf",
              "DejaVuSerif.ttf", "CarterOne-Regular.ttf"}

\* ImageFont.truetype(path, size)
truetype(files, name, size) ==
    IF name \in files THEN [raised |-> "no", face |-> name, size |-> size]
    ELSE [raised |-> "OSError", face |-> "none", size |-> size]

\* Card generator: load_font(size, italic): the italic or the bold face, and
\* in the except branch the regular face.
load_font_card(files, size, italic) ==
    LET first == truetype(files, IF italic THEN "DejaVuSerif-Italic.ttf"
                                 ELSE "DejaVuSerif-Bold.ttf", size)
    IN  IF first.raised = "no" THEN first
        ELSE truetype(files, "DejaVuSerif.ttf", size)

\* playingcard_generator.py: load_font(name, size): in the except branch
\* `if VERBOSE:` is evaluated, a NameError while the global is not defined,
\* and then ImageFont.load_default() is returned.
load_font_playing(files, verbose, name, size) ==
    LET first == truetype(files, name, size)
    IN  IF first.raised = "no" THEN first
        ELSE IF verbose = "undefined"
             THEN [raised |-> "NameError", face |-> "none", size |-> size]
             ELSE [raised |-> "no", face |-> "default", size |-> 0]

NUMBER_SIZE == 80
SUIT_SIZE == 110

\* FONT_INDEX, FONT_SUIT, FONT_PIP: the calls made when the module is imported
ImportFonts ==
    << [name |-> "CarterOne-Regular.ttf", size |-> NUMBER_SIZE, italic |-> FALSE],
       [name |-> "DejaVuSerif-Bold.ttf", size |-> SUIT_SIZE, italic |-> FALSE],
       [name |-> "DejaVuSerif-Bold.ttf", size |-> PIP_SIZE, italic |-> FALSE] >>

\* The load_font calls of one card of the card generator: sizes of the
\* header, type, stats, badge and footer fonts, and an italic flavor font.
CardFontSizes == {22, 24, 26, 28, 34}
CardFonts ==
    {<<[name |-> "", size |-> sz, italic |-> FALSE],
       [name |-> "", size |-> 24, italic |-> it]>> :
         sz \in CardFontSizes, it \in BOOLEAN}

InitFonts ==
    /\ font_gen \in {"card", "playing"}
    /\ font_files \in SUBSET FontFiles
    /\ VERBOSE = "undefined"
    /\ font_reqs \in (IF font_gen = "card" THEN CardFonts ELSE {ImportFonts})
    /\ fonts_loaded = <<>> /\ fontPc = "call"
    /\ WrapIdle /\ FitIdle /\ CoverIdle /\ CardIdle /\ BatchIdle /\ DrawIdle
    /\ PipIdle /\ IdIdle

fontFrame == <<wrapVars, fitVars, coverVars, cardVars, batchVars, drawVars,
               pipVars, font_gen, font_files, idVars>>

\* one call of load_font; an exception ends the import or the card
LoadFont ==
    /\ fontPc = "call" /\ font_reqs # <<>>
    /\ LET req == Head(font_reqs)
           got == IF font_gen = "card"
                  THEN load_font_card(font_files, req.size, req.italic)
                  ELSE load_font_playing(font_files, VERBOSE, req.name, req.size)
       IN  IF got.raised = "no"
           THEN /\ fonts_loaded' = Append(fonts_loaded, got)
                /\ font_reqs' = Tail(font_reqs)
                /\ UNCHANGED fontPc
           ELSE /\ fontPc' = "raised"
                /\ UNCHANGED <<fonts_loaded, font_reqs>>
    /\ UNCHANGED <<VERBOSE, fontFrame>>

\* all fonts are loaded; in the playing-card generator main then runs and
\* sets the global: VERBOSE = args.verbose
FontsLoaded ==
    /\ fontPc = "call" /\ font_reqs = <<>>
    /\ fontPc' = "done"
    /\ IF font_gen = "playing" THEN VERBOSE' \in BOOLEAN
       ELSE UNCHANGED VERBOSE
    /\ UNCHANGED <<font_reqs, fonts_loaded, fontFrame>>

NextFonts == LoadFont \/ FontsLoaded

SpecFonts == InitFonts /\ [][NextFonts]_vars

\* C24: when a requested font file is missing, load_font returns a fallback
\* font and no exception is raised: in the card generator as long as the
\* fallback file DejaVuSerif.ttf is there, in the playing-card generator
\* (whose fallback is built in) always, the fonts loaded at import included.
C24_MissingFontFallsBack ==
    (font_gen = "playing" \/ "DejaVuSerif.ttf" \in font_files)
        => fontPc # "raised"

----------------------------------------------------------------------------
(* card_id_generator.py.  A row is [set, type, subtype]; after the run it  *)
(* also has card_id.                                                        *)

\* str.lower() on the cell values used here
lower_of(v) ==
    CASE v = "Creature" -> "creature"
      [] v = "Unit" -> "unit"
      [] v = "Land" -> "land"
      [] v = "Dual" -> "dual"
      [] v = "Foo" -> "foo"
      [] v = "Bar" -> "bar"
      [] OTHER -> v

TYPE_ABBREV_MAP(key) ==
    CASE key = "artifact" -> "A"
      [] key = "creature" -> "C"
      [] key = "land" -> "L"
      [] key = "spell" -> "S"
      [] OTHER -> "XXX"

SUBTYPE_ABBREV_MAP(key) ==
    CASE key = "aura" -> "A"
      [] key = "admin" -> "ADM"
      [] key = "communityrep" -> "CR"
      [] key = "dual" -> "D"
      [] key = "developer" -> "DEV"
      [] key = "elite" -> "E"
      [] key = "equipment" -> "EQ"
      [] key = "founder" -> "FN"
      [] key = "global" -> "G"
      [] key = "mutant" -> "MT"
      [] key = "myth" -> "MY"
      [] key = "omni" -> "O"
      [] key = "relic" -> "RL"
      [] key = "ritual" -> "RT"
      [] key = "specialist" -> "SP"
      [] key = "unit" -> "U"
      [] key = "utility" -> "UT"
      [] key = "veteran" -> "VET"
      [] key = "wildcard" -> "WLD"
      [] OTHER -> "XXX"

\* first_significant_letter(s, is_type)
first_significant_letter(v, is_type) ==
    IF is_type THEN TYPE_ABBREV_MAP(lower_of(v))
    ELSE SUBTYPE_ABBREV_MAP(lower_of(v))

\* COLLECTION_ABBR_MAP.get(set_val, set_val.upper()) of the normalised
\* Set/Edition value
collection_abbr(set) ==
    CASE set = "SRP Bitterroot" -> "SRP-BR"
      [] set = "SRP Players" -> "SRP-PL"
      [] set = "Homebrew" -> "HOMEBREW"
      [] OTHER -> set

\* card_id = f"{collection_abbr}-{index:03d}-{type_letter}-{subtype_letter}"
card_id_of(r, index) ==
    [abbr |-> collection_abbr(r.set), index |-> index,
     type_letter |-> first_significant_letter(r.type, TRUE),
     subtype_letter |-> first_significant_letter(r.subtype, FALSE)]

MaxIdRows == 2
MaxFiles == 2

IdRows ==
    {[set |-> "SRP Bitterroot", type |-> "Creature", subtype |-> "Unit"],
     [set |-> "SRP Bitterroot", type |-> "creature", subtype |-> "unit"],
     [set |-> "SRP Bitterroot", type |-> "Foo", subtype |-> "Unit"],
     [set |-> "SRP Bitterroot", type |-> "Bar", subtype |-> "Unit"],
     [set |-> "Homebrew", type |-> "Creature", subtype |-> "Unit"],
     [set |-> "SRP Players", type |-> "Land", subtype |-> "Dual"]}
IdKeys == {<<r.type, r.subtype>> : r \in IdRows}
IdFiles == UNION {[1..n -> IdRows] : n \in 0..MaxIdRows}

InitIds ==
    /\ \E n \in 1..MaxFiles : csv_files \in [1..n -> IdFiles]
    /\ output_given \in BOOLEAN
    /\ csv_i = 1 /\ output_path = <<>> /\ id_rows = <<>>
    /\ type_subtype_counter = <<>> /\ card_ids = <<>> /\ id_ri = 1
    /\ written = {} /\ idPc = "read"
    /\ WrapIdle /\ FitIdle /\ CoverIdle /\ CardIdle /\ BatchIdle /\ DrawIdle
    /\ PipIdle /\ FontIdle

idFrame == <<wrapVars, fitVars, coverVars, cardVars, batchVars, drawVars,
             pipVars, fontVars, csv_files, output_given>>

\* One iteration of `for i, csv_path in enumerate(csv_paths)`: the whole
\* body of the loop is
\*     output_path = output_paths[i] if output_paths else csv_path
\*     rows = list(csv.DictReader(csvfile))
\*     type_subtype_counter = defaultdict(int);  card_ids = []
ReadInput ==
    /\ idPc = "read" /\ csv_i <= Len(csv_files)
    /\ output_path' = <<IF output_given THEN "out" ELSE "in", csv_i>>
    /\ id_rows' = csv_files[csv_i]
    /\ type_subtype_counter' = [k \in IdKeys |-> 0]
    /\ card_ids' = <<>>
    /\ csv_i' = csv_i + 1
    /\ UNCHANGED <<id_ri, written, idPc, idFrame>>

\* the loop over the inputs is over
InputsRead ==
    /\ idPc = "read" /\ csv_i > Len(csv_files)
    /\ idPc' = "assign"
    /\ UNCHANGED <<csv_i, output_path, id_rows, type_subtype_counter, card_ids,
                   id_ri, written, idFrame>>

\* One iteration of `for row in rows` (after the loop over the inputs)
AssignCardId ==
    /\ idPc = "assign" /\ id_ri <= Len(id_rows)
    /\ LET r == id_rows[id_ri]
           key == <<r.type, r.subtype>>
           index == type_subtype_counter[key] + 1
       IN  /\ type_subtype_counter' =
                  [type_subtype_counter EXCEPT ![key] = index]
           /\ card_ids' = Append(card_ids,
                  [set |-> r.set, type |-> r.type, subtype |-> r.subtype,
                   card_id |-> card_id_of(r, index)])
    /\ id_ri' = id_ri + 1
    /\ UNCHANGED <<csv_i, output_path, id_rows, written, idPc, idFrame>>

RowsAssigned ==
    /\ idPc = "assign" /\ id_ri > Len(id_rows)
    /\ idPc' = "write"
    /\ UNCHANGED <<csv_i, output_path, id_rows, type_subtype_counter, card_ids,
                   id_ri, written, idFrame>>

\* with open(output_path, 'w') ...: writer.writerow(row) for row in card_ids
WriteOutput ==
    /\ idPc = "write"
    /\ written' = {f \in written : f.path # output_path}
                      \cup {[path |-> output_path, rows |-> card_ids]}
    /\ idPc' = "done"
    /\ UNCHANGED <<csv_i, output_path, id_rows, type_subtype_counter, card_ids,
                   id_ri, idFrame>>

NextIds ==
    \/ ReadInput \/ InputsRead \/ AssignCardId \/ RowsAssigned \/ WriteOutput

SpecIds == InitIds /\ [][NextIds]_vars

\* a written row without its card ID
WithoutId(r) == [set |-> r.set, type |-> r.type, subtype |-> r.subtype]

\* C25: when main has ended, for every input i the file at output path i
\* (input path i when --output is omitted) has been written and holds the
\* rows of input i, each with a card ID.
C25_EveryInputProcessed ==
    idPc = "done" =>
        \A i \in 1..Len(csv_files) :
            \E f \in written :
                /\ f.path = <<IF output_given THEN "out" ELSE "in", i>>
                /\ Len(f.rows) = Len(csv_files[i])
                /\ \A k \in 1..Len(f.rows) :
                       WithoutId(f.rows[k]) = csv_files[i][k]

\* C30: in a written file no two rows with the same Set/Edition value have
\* the same card ID.
C30_CardIdsUnique ==
    \A f \in written :
        \A a, b \in 1..Len(f.rows) :
            (a # b /\ f.rows[a].set = f.rows[b].set)
                => f.rows[a].card_id # f.rows[b].card_id

----------------------------------------------------------------------------
\* The words of the lines, in order.
RECURSIVE Flatten(_)
Flatten(ls) == IF ls = <<>> THEN <<>> ELSE Head(ls) \o Flatten(Tail(ls))

\* C28: the lines the word wrap returns hold exactly the words of the text,
\* each once and in the order of the text, and no line is empty; for
\* wrap_left and for the wrap of draw_center_wrapped_text, whatever the
\* width budget.
C28_WrapKeepsWords ==
    wrapPc = "done" =>
        /\ Flatten(lines) = words
        /\ \A k \in 1..Len(lines) : lines[k] # <<>>

----------------------------------------------------------------------------
\* C26: a batch deletes and changes nothing under the output directory
\* outside the subdirectories of the sets with a selected row: every file
\* and every directory that is in no such subdirectory is left as it is by
\* every step, whatever the rows hold (an empty Set/Edition included).  The
\* output directory itself ("") is no subdirectory of a set.
C26_OtherOutputUntouched ==
    [][batchPc # "idle" =>
          /\ \A f \in out_files :
                 f.dir \notin (SelectedSets \ {""}) => f \in out_files'
          /\ \A d \in dirs :
                 d \notin (SelectedSets \ {""}) => d \in dirs']_vars

\* C27: for every card rendered in a batch the footer ordinal k/N has
\* 1 <= k <= N, N the number of rows of the table and k the 1-based position
\* of the card's row in the table.
C27_OrdinalInRange ==
    \A j \in 1..Len(rendered) :
        LET ord == footer_ordinal(rendered[j], table)
        IN  /\ 1 <= ord.k /\ ord.k <= ord.n
            /\ ord.n = Len(table)
            /\ table[ord.k] = iloc(table, rendered[j])

====
